---------------------------- MODULE Spec2Model ----------------------------
(***************************************************************************)
(* Model of the batch-diff statistics pipeline of burroughs_stat_tracker.  *)
(*                                                                         *)
(* The database is the state: the source table of raw snapshot rows, and   *)
(* per equipment category the stat table, the closed-call history table    *)
(* (the ledger) and the batch-aggregate ("hourly"), daily, weekly and      *)
(* monthly tables.  One action is one call of process_batch or of          *)
(* reprocess_last_batch, or the arrival of a raw batch in the source table.*)
(* The connection is opened with autocommit(True), so every statement a    *)
(* cycle executed before an exception stays committed.                     *)
(*                                                                         *)
(* Datetimes are naive business-time (Central) wall-clock values: whole    *)
(* seconds since 2025-12-01 00:00:00, a Monday.  to_cst localizes a naive  *)
(* value without changing its wall-clock fields, and every value handed to *)
(* SQL has its tzinfo removed again, so the wall clock is all that counts. *)
(* Floats that are quotients of counts are kept as reduced fractions       *)
(* <<numerator, denominator>>.                                             *)
(***************************************************************************)
EXTENDS Integers, Sequences, FiniteSets, TLC

VARIABLES
    source,     \* the source table: a sequence of raw batches, oldest first
    db,         \* the output tables, per category
    cfg,        \* config.json: EOD time, week start, troubleshoot mode
    faults,     \* how many cycles a collaborator failure has ended so far
    last        \* what the last operation did: its name, return value, error

vars == <<source, db, cfg, faults, last>>

(***************************************************************************)
(* Bounds of the model                                                     *)
(***************************************************************************)
MaxBatches == 3
MaxFaults == 1

(***************************************************************************)
(* Small helpers                                                           *)
(***************************************************************************)
NULL == 0 - 1

RECURSIVE GCD(_, _)
GCD(a, b) == IF b = 0 THEN a ELSE GCD(b, a % b)

\* a / b as a reduced fraction; the code writes "a / b if b > 0 else 0"
FracUnguarded(a, b) ==
    IF b = 0 THEN <<a, 0>> ELSE <<a \div GCD(a, b), b \div GCD(a, b)>>
Frac(a, b) ==
    IF b > 0 /\ a > 0 THEN <<a \div GCD(a, b), b \div GCD(a, b)>> ELSE <<0, 1>>

\* int(rate * count) for a stored rate and a count
IntOfProduct(rate, count) == (rate[1] * count) \div rate[2]

RECURSIVE SumSeq(_)
SumSeq(s) == IF s = <<>> THEN 0 ELSE Head(s) + SumSeq(Tail(s))

Range(s) == {s[i] : i \in 1..Len(s)}

(***************************************************************************)
(* Calendar: day numbers count from 2025-12-01                             *)
(***************************************************************************)
SecondsPerDay == 24 * 60 * 60

Months == <<
    [year |-> 2025, month |-> 12, first |-> 0,   len |-> 31],
    [year |-> 2026, month |-> 1,  first |-> 31,  len |-> 31],
    [year |-> 2026, month |-> 2,  first |-> 62,  len |-> 28],
    [year |-> 2026, month |-> 3,  first |-> 90,  len |-> 31] >>

MonthRec(d) ==
    Months[CHOOSE i \in 1..Len(Months) :
              Months[i].first <= d /\ d < Months[i].first + Months[i].len]

YearOf(d) == MonthRec(d).year
MonthOf(d) == MonthRec(d).month
\* date.replace(month=1, day=1)
YearStart(d) == IF YearOf(d) = 2025 THEN 0 - 334 ELSE 31
\* date.weekday(): Monday is 0, Sunday is 6
Weekday(d) == d % 7

At(day, h, m, s) == day * SecondsPerDay + h * 3600 + m * 60 + s

(***************************************************************************)
(* app/utils/timezone.py                                                   *)
(***************************************************************************)
to_cst(dt) == dt

get_cst_date(dt) == to_cst(dt) \div SecondsPerDay

HourOf(dt) == (dt % SecondsPerDay) \div 3600
MinuteOf(dt) == (dt % 3600) \div 60

is_end_of_day_cst_at_raw_eod(dt, c) ==
    \/ HourOf(to_cst(dt)) > c.EOD_HOUR
    \/ HourOf(to_cst(dt)) = c.EOD_HOUR /\ MinuteOf(to_cst(dt)) >= c.EOD_MINUTE
is_end_of_day_cst(dt, c) ==
    LET cst_dt == to_cst(dt)
        raw_minute == c.EOD_MINUTE + 30
        eod_trigger_hour == IF raw_minute >= 60 THEN (c.EOD_HOUR + 1) % 24
                            ELSE c.EOD_HOUR
        eod_trigger_minute == IF raw_minute >= 60 THEN raw_minute % 60
                              ELSE raw_minute
    IN  IF eod_trigger_hour = 0
        THEN IF HourOf(cst_dt) = 0 THEN MinuteOf(cst_dt) >= eod_trigger_minute
             ELSE HourOf(cst_dt) > 0
        ELSE IF HourOf(cst_dt) > eod_trigger_hour THEN TRUE
             ELSE IF HourOf(cst_dt) = eod_trigger_hour
                  THEN MinuteOf(cst_dt) >= eod_trigger_minute
                  ELSE FALSE

\* <<week_start, week_end>> of the week containing the date
get_week_start_end(date, week_starts_on) ==
    LET week_start == IF week_starts_on = "Sunday"
                      THEN date - ((Weekday(date) + 1) % 7)
                      ELSE date - Weekday(date)
    IN  <<week_start, week_start + 6>>

\* <<year, week_number>>
get_week_number(date, week_starts_on) ==
    LET week_start == get_week_start_end(date, week_starts_on)[1]
        week_number == ((week_start - YearStart(date)) \div 7) + 1
    IN  IF YearOf(week_start) < YearOf(date)
        THEN <<YearOf(week_start), week_number>>
        ELSE <<YearOf(date), week_number>>

is_end_of_week_cst(dt, c) ==
    LET cst_dt == to_cst(dt)
        is_saturday == IF c.WEEK_STARTS_ON = "Sunday"
                       THEN Weekday(get_cst_date(cst_dt)) = 5
                       ELSE Weekday(get_cst_date(cst_dt)) = 6
        is_eod == HourOf(cst_dt) = c.EOD_HOUR /\ MinuteOf(cst_dt) >= c.EOD_MINUTE
    IN  is_saturday /\ is_eod

is_end_of_month_cst(dt, c) ==
    LET cst_dt == to_cst(dt)
        is_eod == HourOf(cst_dt) = c.EOD_HOUR /\ MinuteOf(cst_dt) >= c.EOD_MINUTE
        next_day == get_cst_date(cst_dt) + 1
        is_last_day == MonthOf(next_day) # MonthOf(get_cst_date(cst_dt))
    IN  is_last_day /\ is_eod

(***************************************************************************)
(* app/utils/equipment.py, app/utils/data.py                               *)
(*                                                                         *)
(* An Equipment_ID is a sequence of characters; <<>> is both None and "".  *)
(* A raw row is a record [ID, Service_Call_ID, Appointment, OpenDateTime,  *)
(* Equipment_ID]; a calls dictionary is a function from Service_Call_ID to *)
(* the row kept for it.                                                    *)
(***************************************************************************)
Categories == {"Recyclers", "SmartSafes"}

UpperChar(ch) ==
    CASE ch = "n" -> "N"
      [] ch = "r" -> "R"
      [] ch = "f" -> "F"
      [] ch = "s" -> "S"
      [] OTHER -> ch

Upper(str) == [i \in 1..Len(str) |-> UpperChar(str[i])]

RecyclerPrefixes ==
    { <<"N", "4", "R">>, <<"N", "9", "R">>, <<"N", "7", "F">>, <<"R", "F">> }

StartsWith(str, prefix) ==
    Len(str) >= Len(prefix) /\ SubSeq(str, 1, Len(prefix)) = prefix

is_recycler_unless_known_safe(equipment_id) ==
    IF equipment_id = <<>> THEN TRUE
    ELSE \E p \in RecyclerPrefixes : StartsWith(Upper(equipment_id), p)
is_recycler(equipment_id) ==
    IF equipment_id = <<>> THEN FALSE
    ELSE \E p \in RecyclerPrefixes : StartsWith(Upper(equipment_id), p)

Restrict(f, S) == [k \in S |-> f[k]]

\* record.get('Equipment_ID', ''): a record without the key reads as ""
EquipmentIdOf(record) ==
    IF "Equipment_ID" \in DOMAIN record THEN record.Equipment_ID ELSE <<>>

filter_by_equipment_type(calls_dict, category) ==
    Restrict(calls_dict,
             {k \in DOMAIN calls_dict :
                 (category = "Recyclers") = is_recycler(EquipmentIdOf(calls_dict[k]))})

\* sort by ID descending, keep the first row seen for each Service_Call_ID
deduplicate_records_keep_first(records) ==
    [call \in {r.Service_Call_ID : r \in records} |->
        CHOOSE r \in records :
            /\ r.Service_Call_ID = call
            /\ \A q \in records : q.Service_Call_ID = call => q.ID >= r.ID]
deduplicate_records(records) ==
    [call \in {r.Service_Call_ID : r \in records} |->
        CHOOSE r \in records :
            /\ r.Service_Call_ID = call
            /\ \A q \in records : q.Service_Call_ID = call => q.ID <= r.ID]

(***************************************************************************)
(* app/services/batch_stats.py: the batch diff of one category             *)
(***************************************************************************)
FourteenDays == 14

RECURSIVE SumOver(_, _)
SumOver(S, f) ==
    IF S = {} THEN 0
    ELSE LET x == CHOOSE y \in S : TRUE IN f[x] + SumOver(S \ {x}, f)

Appointments(calls) == [k \in DOMAIN calls |-> calls[k].Appointment]

closed_call_ids_all_previous(latest_filtered, previous_filtered) ==
    DOMAIN previous_filtered
closed_call_ids(latest_filtered, previous_filtered) ==
    IF DOMAIN previous_filtered # {}
    THEN DOMAIN previous_filtered \ DOMAIN latest_filtered
    ELSE {}

newly_opened_call_ids_none_at_first(latest_filtered, previous_filtered) ==
    IF DOMAIN previous_filtered # {}
    THEN DOMAIN latest_filtered \ DOMAIN previous_filtered
    ELSE {}
newly_opened_call_ids_all_latest(latest_filtered, previous_filtered) ==
    DOMAIN latest_filtered
newly_opened_call_ids(latest_filtered, previous_filtered) ==
    IF DOMAIN previous_filtered # {}
    THEN DOMAIN latest_filtered \ DOMAIN previous_filtered
    ELSE DOMAIN latest_filtered

same_day_closure_any_open_date(prev_rec, latest_pushed_at) ==
    prev_rec.OpenDateTime # NULL
same_day_closure(prev_rec, latest_pushed_at) ==
    /\ prev_rec.OpenDateTime # NULL
    /\ get_cst_date(prev_rec.OpenDateTime) = get_cst_date(latest_pushed_at)

\* rows the reopen query returns: one per ledger row, not one per call
reopened_results(history, newly_opened, latest_pushed_at) ==
    LET fourteen_days_ago == to_cst(latest_pushed_at) - FourteenDays * SecondsPerDay
    IN  {i \in 1..Len(history) :
            /\ history[i].Service_Call_ID \in newly_opened
            /\ history[i].ClosedTimestamp >= fourteen_days_ago}

follow_up_calls_any_above_one(latest_filtered, previous_filtered) ==
    IF DOMAIN previous_filtered # {}
    THEN {k \in DOMAIN latest_filtered \cap DOMAIN previous_filtered :
             latest_filtered[k].Appointment > 1}
    ELSE {}
follow_up_calls(latest_filtered, previous_filtered) ==
    IF DOMAIN previous_filtered # {}
    THEN {k \in DOMAIN latest_filtered \cap DOMAIN previous_filtered :
             /\ latest_filtered[k].Appointment > previous_filtered[k].Appointment
             /\ latest_filtered[k].Appointment > 1}
    ELSE {}

\* stats_to_insert, from the filtered snapshots and the sets of sections B, C
stats_to_insert(latest_filtered, previous_filtered, closed, newly, latest_pushed_at, latest_batch_id, history) ==
    LET total_open_calls == Cardinality(DOMAIN latest_filtered)
        total_closed == Cardinality(closed)
        same_day_closures == Cardinality(
            {k \in closed : same_day_closure(previous_filtered[k], latest_pushed_at)})
        first_time_fixes == Cardinality(
            {k \in closed : previous_filtered[k].Appointment = 1})
        reopened_calls == Cardinality(reopened_results(history, newly, latest_pushed_at))
        follow_ups == Cardinality(follow_up_calls(latest_filtered, previous_filtered))
        total_appointments == Cardinality(
            {latest_filtered[k].Appointment : k \in DOMAIN latest_filtered})
    IN  [ Timestamp |-> latest_pushed_at,
          BatchID |-> latest_batch_id,
          TotalOpenCalls |-> total_open_calls,
          CallsClosedSinceLastBatch |-> total_closed,
          SameDayClosures |-> same_day_closures,
          CallsWithMultipleAppointments |-> Cardinality(
              {k \in DOMAIN latest_filtered : latest_filtered[k].Appointment >= 2}),
          AverageAppointmentNumber |->
              Frac(SumOver(DOMAIN latest_filtered, Appointments(latest_filtered)),
                   total_open_calls),
          SameDayCloseRate |-> Frac(same_day_closures, total_closed),
          AvgAppointmentsPerCompletedCall |->
              Frac(SumOver(closed, Appointments(previous_filtered)), total_closed),
          FirstTimeFixRate |-> Frac(first_time_fixes, total_closed),
          FourteenDayReopenRate |-> Frac(reopened_calls, Cardinality(newly)),
          TotalFollowUpAppointments |-> follow_ups,
          TotalAppointments |-> total_appointments,
          RepeatDispatchRate |-> Frac(follow_ups, total_appointments) ]

\* the diff of the two filtered snapshots
DiffRow(latest_filtered, previous_filtered, latest_pushed_at, latest_batch_id, history) ==
    stats_to_insert(latest_filtered, previous_filtered,
                    closed_call_ids(latest_filtered, previous_filtered),
                    newly_opened_call_ids(latest_filtered, previous_filtered),
                    latest_pushed_at, latest_batch_id, history)

\* "... if previous_calls else {}"
FilterPrevious(previous_calls, category) ==
    IF DOMAIN previous_calls # {}
    THEN filter_by_equipment_type(previous_calls, category)
    ELSE previous_calls

\* the row process_equipment_type_stats inserts into the stat table
StatRow(latest_calls, previous_calls, latest_pushed_at, latest_batch_id, history, category) ==
    DiffRow(filter_by_equipment_type(latest_calls, category),
            FilterPrevious(previous_calls, category),
            latest_pushed_at, latest_batch_id, history)

\* the ledger rows the diff upserts, in a fixed order of the closed calls
HistoryRow(prev_rec, latest_pushed_at) ==
    [ Service_Call_ID |-> prev_rec.Service_Call_ID,
      ClosedTimestamp |-> latest_pushed_at,
      OpenDateTime |-> prev_rec.OpenDateTime,
      Equipment_ID |-> prev_rec.Equipment_ID ]

\* MERGE ... ON (Service_Call_ID, ClosedTimestamp) WHEN NOT MATCHED THEN INSERT
MergeNoCheck(history, row) == Append(history, row)
MergeHistory(history, row) ==
    IF \E i \in 1..Len(history) :
          /\ history[i].Service_Call_ID = row.Service_Call_ID
          /\ history[i].ClosedTimestamp = row.ClosedTimestamp
    THEN history
    ELSE Append(history, row)

RECURSIVE MergeAll(_, _, _, _)
MergeAll(history, closed, previous_filtered, latest_pushed_at) ==
    IF closed = {} THEN history
    ELSE LET k == CHOOSE x \in closed : \A y \in closed : x <= y
         IN  MergeAll(MergeHistory(history,
                                   HistoryRow(previous_filtered[k], latest_pushed_at)),
                      closed \ {k}, previous_filtered, latest_pushed_at)

(***************************************************************************)
(* app/services/hourly_aggregator.py: the batch-aggregate level            *)
(*                                                                         *)
(* The stat table is appended to in the order of processing and a cycle    *)
(* always works on the newest raw batch, so a stat table is ordered by     *)
(* Timestamp (TablesOrdered below) and ORDER BY Timestamp ASC is the order *)
(* of the sequence.                                                        *)
(***************************************************************************)
\* one column of the fetched rows
Column(rows, field) == [i \in 1..Len(rows) |-> rows[i][field]]

\* int(rate * count) of each fetched row
Products(rows, rate, count) ==
    [i \in 1..Len(rows) |-> IntOfProduct(rows[i][rate], rows[i][count])]

MaxOf(S) == CHOOSE x \in S : \A y \in S : y <= x

\* SELECT TOP 1 PeriodEnd FROM batch_table ORDER BY PeriodEnd DESC
get_last_batch_aggregation_timestamp(batch_table) ==
    IF batch_table = <<>> THEN NULL
    ELSE MaxOf({batch_table[i].PeriodEnd : i \in 1..Len(batch_table)})

\* raw rows of the source table pushed at one of the given timestamps
SourceRows(src, stamps) ==
    UNION {src[i].rows : i \in {j \in 1..Len(src) : src[j].PushedAt \in stamps}}

CategoryRows(rows, category) ==
    {r \in rows : (category = "Recyclers") = is_recycler(r.Equipment_ID)}

\* sum_appointments after the loop: set by the last batch with a positive
\* average and a positive open count
RECURSIVE SumAppointmentsOf(_)
SumAppointmentsOf(batches) ==
    IF batches = <<>> THEN 0
    ELSE LET b == batches[Len(batches)]
         IN  IF b.AverageAppointmentNumber[1] > 0 /\ b.TotalOpenCalls > 0
             THEN IntOfProduct(b.AverageAppointmentNumber, b.TotalOpenCalls)
             ELSE SumAppointmentsOf(SubSeq(batches, 1, Len(batches) - 1))

\* the stat rows of the period: a Timestamp after the last aggregation and up
\* to the current batch
\* the window closed at both ends
PeriodBatchesFromLast(stat_table, last_aggregation_timestamp, current_batch_timestamp) ==
    LET InPeriod(b) == IF last_aggregation_timestamp # NULL
                       THEN /\ b.Timestamp >= to_cst(last_aggregation_timestamp)
                            /\ b.Timestamp <= to_cst(current_batch_timestamp)
                       ELSE b.Timestamp <= to_cst(current_batch_timestamp)
    IN  SelectSeq(stat_table, InPeriod)

PeriodBatches(stat_table, last_aggregation_timestamp, current_batch_timestamp) ==
    LET period_end == to_cst(current_batch_timestamp)
        InPeriod(b) == IF last_aggregation_timestamp # NULL
                       THEN /\ b.Timestamp > to_cst(last_aggregation_timestamp)
                            /\ b.Timestamp <= period_end
                       ELSE b.Timestamp <= period_end
    IN  SelectSeq(stat_table, InPeriod)

\* the batch-aggregate rows that end before the current batch
PreviousPeriods(batch_table, current_batch_timestamp) ==
    LET Earlier(h) == h.PeriodEnd < to_cst(current_batch_timestamp)
    IN  SelectSeq(batch_table, Earlier)

\* those of them of the current business date
PeriodsToday(batch_table, current_batch_timestamp) ==
    LET EarlierToday(h) == /\ h.Date = get_cst_date(current_batch_timestamp)
                           /\ h.PeriodEnd < to_cst(current_batch_timestamp)
    IN  SelectSeq(batch_table, EarlierToday)

\* distinct appointment numbers in the raw rows of today up to the current batch
AppointmentsToday(src, current_batch_timestamp, category) ==
    LET stamps_today ==
            {src[i].PushedAt : i \in {j \in 1..Len(src) :
                /\ src[j].PushedAt >= get_cst_date(current_batch_timestamp) * SecondsPerDay
                /\ src[j].PushedAt <= to_cst(current_batch_timestamp)}}
    IN  Cardinality(
            {r.Appointment : r \in CategoryRows(SourceRows(src, stamps_today), category)})

\* the row of insert_sql, from the rows the queries returned
AggregateRow(batches, prev_periods, today, total_appointments_today, src, last_aggregation_timestamp, current_batch_timestamp, category) ==
    LET period_end == to_cst(current_batch_timestamp)
        period_start == IF last_aggregation_timestamp # NULL
                        THEN to_cst(last_aggregation_timestamp)
                        ELSE period_end
        batch_missing == Len(batches) = 0
        prev_period == CHOOSE h \in Range(prev_periods) :
                          \A g \in Range(prev_periods) : g.PeriodEnd <= h.PeriodEnd
        latest_batch == batches[Len(batches)]
        total_closed_calls == SumSeq(Column(batches, "CallsClosedSinceLastBatch"))
        total_same_day_closures == SumSeq(Column(batches, "SameDayClosures"))
        total_follow_up_appointments ==
            SumSeq(Column(batches, "TotalFollowUpAppointments"))
        total_first_time_fixes_hour ==
            SumSeq(Products(batches, "FirstTimeFixRate", "CallsClosedSinceLastBatch"))
        sum_completed_appointments ==
            SumSeq(Products(batches, "AvgAppointmentsPerCompletedCall",
                            "CallsClosedSinceLastBatch"))
        rolling_total_same_day_closures ==
            SumSeq(Column(today, "TotalSameDayClosures")) + total_same_day_closures
        total_closed_calls_today ==
            SumSeq(Column(today, "TotalClosedCalls")) + total_closed_calls
        rolling_total_follow_up_appointments ==
            SumSeq(Column(today, "TotalFollowUpAppointments"))
                + total_follow_up_appointments
        cumulative_first_time_fixes ==
            SumSeq(Column(today, "TotalFirstTimeFixes")) + total_first_time_fixes_hour
        cumulative_closed_calls ==
            SumSeq(Column(today, "TotalClosedCallsForFTF")) + total_closed_calls
        carried == batch_missing /\ prev_periods # <<>>
    IN  [ Date |-> get_cst_date(current_batch_timestamp),
          Hour |-> HourOf(period_end),
          PeriodMinute |-> 0,
          PeriodStart |-> period_start,
          PeriodEnd |-> period_end,
          TotalOpenCalls |-> IF ~batch_missing THEN latest_batch.TotalOpenCalls
                             ELSE IF carried THEN prev_period.TotalOpenCalls ELSE 0,
          TotalClosedCalls |-> total_closed_calls,
          TotalSameDayClosures |-> rolling_total_same_day_closures,
          TotalCallsWithMultiAppt |->
              IF ~batch_missing THEN latest_batch.CallsWithMultipleAppointments
              ELSE IF carried THEN prev_period.TotalCallsWithMultiAppt ELSE 0,
          TotalNotServicedYet |->
              IF ~batch_missing
              THEN Cardinality({r \in CategoryRows(
                                    SourceRows(src, {latest_batch.Timestamp}), category) :
                                  r.Appointment = 1})
              ELSE IF carried THEN prev_period.TotalNotServicedYet ELSE 0,
          SumAppointments |-> SumAppointmentsOf(batches),
          SumCompletedAppointments |-> sum_completed_appointments,
          AverageAppointmentNumber |->
              IF ~batch_missing THEN latest_batch.AverageAppointmentNumber
              ELSE IF carried THEN prev_period.AverageAppointmentNumber ELSE <<0, 1>>,
          SameDayCloseRate |->
              Frac(rolling_total_same_day_closures, total_closed_calls_today),
          FirstTimeFixRate |-> Frac(total_first_time_fixes_hour, total_closed_calls),
          AvgAppointmentsPerCompletedCall |->
              Frac(sum_completed_appointments, total_closed_calls),
          TotalFirstTimeFixes |-> cumulative_first_time_fixes,
          TotalClosedCallsForFTF |-> cumulative_closed_calls,
          FirstTimeFixRate_RunningTotal |->
              Frac(cumulative_first_time_fixes, cumulative_closed_calls),
          TotalFollowUpAppointments |-> rolling_total_follow_up_appointments,
          TotalAppointments |-> total_appointments_today,
          RepeatDispatchRate |->
              Frac(rolling_total_follow_up_appointments, total_appointments_today),
          BatchCount |-> Len(batches),
          BatchMissing |-> batch_missing ]

HourlyRow(stat_table, batch_table, src, last_aggregation_timestamp, current_batch_timestamp, category) ==
    AggregateRow(PeriodBatches(stat_table, last_aggregation_timestamp,
                               current_batch_timestamp),
                 PreviousPeriods(batch_table, current_batch_timestamp),
                 PeriodsToday(batch_table, current_batch_timestamp),
                 AppointmentsToday(src, current_batch_timestamp, category),
                 src, last_aggregation_timestamp, current_batch_timestamp, category)

\* UNIQUE (Date, Hour, PeriodMinute) of the batch-aggregate table
ViolatesHourlyUnique(batch_table, row) ==
    \E i \in 1..Len(batch_table) :
        /\ batch_table[i].Date = row.Date
        /\ batch_table[i].Hour = row.Hour
        /\ batch_table[i].PeriodMinute = row.PeriodMinute

HourlyExistsNever(batch_table, current_batch_timestamp) == FALSE
\* the existing-record check of aggregate_batch_stats
HourlyExists(batch_table, current_batch_timestamp) ==
    \E i \in 1..Len(batch_table) :
        batch_table[i].PeriodEnd = to_cst(current_batch_timestamp)

(***************************************************************************)
(* app/services/daily_summary.py (DAILY_AGGREGATE_FROM = "hourly"),        *)
(* weekly_aggregator.py, monthly_aggregator.py                             *)
(*                                                                         *)
(* Every table is appended to with non-decreasing keys, so ORDER BY Date,  *)
(* Hour / Date / WeekStartDate is the order of the sequence.               *)
(***************************************************************************)
\* the batch-aggregate rows of the 24 hours that end at the EOD time
DailyWindow(hourly_table, latest_pushed_at, c) ==
    LET eod_datetime == At(get_cst_date(latest_pushed_at), c.EOD_HOUR, c.EOD_MINUTE, 0)
        start_time == eod_datetime - SecondsPerDay
        InWindow(h) == h.PeriodStart >= start_time /\ h.PeriodEnd <= eod_datetime
    IN  SelectSeq(hourly_table, InWindow)

DailyRow(hourly_stats, latest_pushed_at) ==
    LET total_closed_eod == SumSeq(Column(hourly_stats, "TotalClosedCalls"))
        latest == hourly_stats[Len(hourly_stats)]
    IN  [ Date |-> get_cst_date(latest_pushed_at),
          Timestamp |-> to_cst(latest_pushed_at),
          AvgApptNum_OpenAtEndOfDay |-> latest.AverageAppointmentNumber,
          AvgApptNum_ClosedToday |->
              Frac(SumSeq(Column(hourly_stats, "SumCompletedAppointments")),
                   total_closed_eod),
          TotalOpenAtEndOfDay |-> latest.TotalOpenCalls,
          TotalClosedEOD |-> total_closed_eod,
          TotalSameDayClosures |-> latest.TotalSameDayClosures,
          TotalCallsWithMultiAppt |-> latest.TotalCallsWithMultiAppt,
          TotalNotServicedYet |-> latest.TotalNotServicedYet,
          FirstTimeFixRate_RunningTotal |-> latest.FirstTimeFixRate_RunningTotal,
          RepeatDispatchRate |-> latest.RepeatDispatchRate ]

\* the INSERT of calculate_daily_summary_from_hourly, if the window has rows
InsertDaily(daily_table, hourly_stats, latest_pushed_at) ==
    IF hourly_stats = <<>> THEN daily_table
    ELSE Append(daily_table, DailyRow(hourly_stats, latest_pushed_at))

\* calculate_daily_summary: the daily table after the call
calculate_daily_summary(daily_table, hourly_table, latest_pushed_at, c) ==
    IF ~is_end_of_day_cst(latest_pushed_at, c) THEN daily_table
    ELSE InsertDaily(daily_table, DailyWindow(hourly_table, latest_pushed_at, c),
                     latest_pushed_at)

WeeklyExistsNever(weekly_table, latest_pushed_at, c) == FALSE
\* the existing-record check of aggregate_weekly_stats
WeeklyExists(weekly_table, latest_pushed_at, c) ==
    LET key == get_week_number(get_cst_date(latest_pushed_at), c.WEEK_STARTS_ON)
    IN  \E i \in 1..Len(weekly_table) :
            weekly_table[i].Year = key[1] /\ weekly_table[i].WeekNumber = key[2]

WeekDays(daily_table, latest_pushed_at, c) ==
    LET week == get_week_start_end(get_cst_date(latest_pushed_at), c.WEEK_STARTS_ON)
        InWeek(d) == d.Date >= week[1] /\ d.Date <= week[2]
    IN  SelectSeq(daily_table, InWeek)

WeeklyRow(daily_stats, latest_pushed_at, c) ==
    LET current_date == get_cst_date(latest_pushed_at)
        week == get_week_start_end(current_date, c.WEEK_STARTS_ON)
        key == get_week_number(current_date, c.WEEK_STARTS_ON)
        total_closed_this_week == SumSeq(Column(daily_stats, "TotalClosedEOD"))
        latest == daily_stats[Len(daily_stats)]
    IN  [ WeekStartDate |-> week[1],
          WeekEndDate |-> week[2],
          Year |-> key[1],
          WeekNumber |-> key[2],
          Timestamp |-> to_cst(latest_pushed_at),
          AvgApptNum_OpenAtEndOfWeek |-> latest.AvgApptNum_OpenAtEndOfDay,
          AvgApptNum_ClosedThisWeek |->
              Frac(SumSeq(Products(daily_stats, "AvgApptNum_ClosedToday", "TotalClosedEOD")),
                   total_closed_this_week),
          TotalOpenAtEndOfWeek |-> latest.TotalOpenAtEndOfDay,
          TotalClosedThisWeek |-> total_closed_this_week,
          TotalSameDayClosures |-> latest.TotalSameDayClosures,
          TotalCallsWithMultiAppt |-> latest.TotalCallsWithMultiAppt,
          TotalNotServicedYet |-> latest.TotalNotServicedYet,
          FirstTimeFixRate_RunningTotal |-> latest.FirstTimeFixRate_RunningTotal,
          RepeatDispatchRate |-> latest.RepeatDispatchRate,
          DayCount |-> Len(daily_stats) ]

\* the existing-record check of aggregate_monthly_stats
MonthlyExists(monthly_table, latest_pushed_at) ==
    LET current_date == get_cst_date(latest_pushed_at)
    IN  \E i \in 1..Len(monthly_table) :
            /\ monthly_table[i].Year = YearOf(current_date)
            /\ monthly_table[i].Month = MonthOf(current_date)

\* every weekly record, whatever its dates
MonthWeeksAll(weekly_table, latest_pushed_at) == weekly_table
\* the weekly records whose week overlaps the month of the batch
MonthWeeks(weekly_table, latest_pushed_at) ==
    LET m == MonthRec(get_cst_date(latest_pushed_at))
        month_start == m.first
        month_end == m.first + m.len - 1
        Overlaps(w) ==
            \/ (w.WeekStartDate >= month_start /\ w.WeekStartDate <= month_end)
            \/ (w.WeekEndDate >= month_start /\ w.WeekEndDate <= month_end)
            \/ (w.WeekStartDate < month_start /\ w.WeekEndDate > month_end)
    IN  SelectSeq(weekly_table, Overlaps)

MonthlyRow(weekly_stats, latest_pushed_at) ==
    LET m == MonthRec(get_cst_date(latest_pushed_at))
        total_closed_this_month == SumSeq(Column(weekly_stats, "TotalClosedThisWeek"))
        latest == weekly_stats[Len(weekly_stats)]
    IN  [ Year |-> m.year,
          Month |-> m.month,
          MonthStartDate |-> m.first,
          MonthEndDate |-> m.first + m.len - 1,
          Timestamp |-> to_cst(latest_pushed_at),
          AvgApptNum_OpenAtEndOfMonth |-> latest.AvgApptNum_OpenAtEndOfWeek,
          AvgApptNum_ClosedThisMonth |->
              Frac(SumSeq(Products(weekly_stats, "AvgApptNum_ClosedThisWeek",
                                     "TotalClosedThisWeek")),
                   total_closed_this_month),
          TotalOpenAtEndOfMonth |-> latest.TotalOpenAtEndOfWeek,
          TotalClosedThisMonth |-> total_closed_this_month,
          TotalSameDayClosures |-> latest.TotalSameDayClosures,
          TotalCallsWithMultiAppt |-> latest.TotalCallsWithMultiAppt,
          TotalNotServicedYet |-> latest.TotalNotServicedYet,
          FirstTimeFixRate_RunningTotal |-> latest.FirstTimeFixRate_RunningTotal,
          RepeatDispatchRate |-> latest.RepeatDispatchRate,
          WeekCount |-> Len(weekly_stats) ]

(***************************************************************************)
(* One category's part of a cycle.  t is the record of the category's six  *)
(* tables.  A run is the record [db, err, calls]: the tables so far, the   *)
(* exception that ended the cycle ("none" while it runs), and what each    *)
(* rollup call returned.  "fault" is a collaborator failure raised by the  *)
(* statement named by the cycle's fault input; "integrity" is the error    *)
(* SQL Server raises for a violated UNIQUE constraint.                     *)
(***************************************************************************)
EmptyTables ==
    [ stat |-> <<>>, history |-> <<>>, hourly |-> <<>>,
      daily |-> <<>>, weekly |-> <<>>, monthly |-> <<>> ]

NoCalls == [c \in Categories |->
               [hourly |-> "not called", weekly |-> "not called",
                monthly |-> "not called"]]

\* the ledger after the MERGE statements of process_equipment_type_stats
MergeClosed(history, latest_filtered, previous_filtered, latest_pushed_at) ==
    MergeAll(history, closed_call_ids(latest_filtered, previous_filtered),
             previous_filtered, latest_pushed_at)

HistoryAfterDiff(history, latest_calls, previous_calls, latest_pushed_at, category) ==
    MergeClosed(history, filter_by_equipment_type(latest_calls, category),
                FilterPrevious(previous_calls, category), latest_pushed_at)

\* process_equipment_type_stats: the ledger upserts, then the stat INSERT
ProcessStatsSkipInsert(t, latest_calls, previous_calls, latest_pushed_at, latest_batch_id, category) ==
    [t EXCEPT !.history = HistoryAfterDiff(t.history, latest_calls, previous_calls,
                                           latest_pushed_at, category)]
InsertStats(t, merged, latest_calls, previous_calls, latest_pushed_at, latest_batch_id, category) ==
    [t EXCEPT !.history = merged,
              !.stat = Append(t.stat,
                              StatRow(latest_calls, previous_calls, latest_pushed_at,
                                      latest_batch_id, merged, category))]

process_equipment_type_stats(t, latest_calls, previous_calls, latest_pushed_at, latest_batch_id, category) ==
    InsertStats(t, HistoryAfterDiff(t.history, latest_calls, previous_calls,
                                    latest_pushed_at, category),
                latest_calls, previous_calls, latest_pushed_at, latest_batch_id, category)

StatsStep(r, c, latest_calls, previous_calls, ts, id, f) ==
    IF r.err # "none" THEN r
    ELSE IF f = "merge" /\ HistoryAfterDiff(r.db[c].history, latest_calls,
                                            previous_calls, ts, c) # r.db[c].history
    THEN [r EXCEPT !.err = "fault"]
    ELSE IF f = "insert"
    THEN [r EXCEPT !.err = "fault",
                   !.db[c] = ProcessStatsSkipInsert(r.db[c], latest_calls,
                                                    previous_calls, ts, id, c)]
    ELSE [r EXCEPT !.db[c] = process_equipment_type_stats(r.db[c], latest_calls,
                                                           previous_calls, ts, id, c)]

\* the run after a rollup call that returned out = <<table, result>>; an
\* integrity error leaves the rollup as an exception and ends the cycle
Rolled(r, c, level, out) ==
    [r EXCEPT !.db[c][level] = out[1],
              !.calls[c][level] = out[2],
              !.err = IF out[2] = "IntegrityError" THEN "integrity" ELSE "none"]

\* the INSERT of aggregate_batch_stats: <<batch-aggregate table, result>>
InsertHourly(batch_table, row) ==
    IF ViolatesHourlyUnique(batch_table, row)
    THEN <<batch_table, "IntegrityError">>
    ELSE <<Append(batch_table, row), "True">>

\* aggregate_batch_stats: <<batch-aggregate table, result>>
aggregate_batch_stats(t, src, last_aggregation_timestamp, current_batch_timestamp, category) ==
    IF HourlyExists(t.hourly, current_batch_timestamp)
    THEN <<t.hourly, "False">>
    ELSE InsertHourly(t.hourly,
                      HourlyRow(t.stat, t.hourly, src, last_aggregation_timestamp,
                                current_batch_timestamp, category))

HourlyStep(r, c, src, ts, f) ==
    IF r.err # "none" THEN r
    ELSE IF f = "hourly" THEN [r EXCEPT !.err = "fault"]
    ELSE Rolled(r, c, "hourly",
                aggregate_batch_stats(
                    r.db[c], src,
                    get_last_batch_aggregation_timestamp(r.db[c].hourly), ts, c))

DailyStep(r, c, ts, conf, f) ==
    IF r.err # "none" THEN r
    ELSE IF f = "daily" /\ is_end_of_day_cst(ts, conf) THEN [r EXCEPT !.err = "fault"]
    ELSE [r EXCEPT !.db[c].daily =
                      calculate_daily_summary(r.db[c].daily, r.db[c].hourly, ts, conf)]

\* UNIQUE (Year, WeekNumber) of the weekly table
ViolatesWeeklyUnique(weekly_table, row) ==
    \E i \in 1..Len(weekly_table) :
        weekly_table[i].Year = row.Year /\ weekly_table[i].WeekNumber = row.WeekNumber

\* UNIQUE (Year, Month) of the monthly table
ViolatesMonthlyUnique(monthly_table, row) ==
    \E i \in 1..Len(monthly_table) :
        monthly_table[i].Year = row.Year /\ monthly_table[i].Month = row.Month

\* the INSERT of a weekly row, if the week has daily rows
InsertWeeklyRow(weekly_table, row) ==
    IF ViolatesWeeklyUnique(weekly_table, row)
    THEN <<weekly_table, "IntegrityError">>
    ELSE <<Append(weekly_table, row), "True">>

InsertWeekly(weekly_table, daily_stats, latest_pushed_at, conf) ==
    IF daily_stats = <<>> THEN <<weekly_table, "False">>
    ELSE InsertWeeklyRow(weekly_table, WeeklyRow(daily_stats, latest_pushed_at, conf))

\* aggregate_weekly_stats: <<weekly table, result>>
aggregate_weekly_stats(t, latest_pushed_at, conf) ==
    IF WeeklyExists(t.weekly, latest_pushed_at, conf) THEN <<t.weekly, "False">>
    ELSE InsertWeekly(t.weekly, WeekDays(t.daily, latest_pushed_at, conf),
                      latest_pushed_at, conf)

WeeklyStep(r, c, ts, conf, f) ==
    IF r.err # "none" \/ ~is_end_of_week_cst(ts, conf) THEN r
    ELSE IF f = "weekly" THEN [r EXCEPT !.err = "fault"]
    ELSE Rolled(r, c, "weekly", aggregate_weekly_stats(r.db[c], ts, conf))

\* the INSERT of a monthly row, if the month has weekly rows
InsertMonthlyRow(monthly_table, row) ==
    IF ViolatesMonthlyUnique(monthly_table, row)
    THEN <<monthly_table, "IntegrityError">>
    ELSE <<Append(monthly_table, row), "True">>

InsertMonthly(monthly_table, weekly_stats, latest_pushed_at) ==
    IF weekly_stats = <<>> THEN <<monthly_table, "False">>
    ELSE InsertMonthlyRow(monthly_table, MonthlyRow(weekly_stats, latest_pushed_at))

\* aggregate_monthly_stats: <<monthly table, result>>
aggregate_monthly_stats(t, latest_pushed_at) ==
    IF MonthlyExists(t.monthly, latest_pushed_at) THEN <<t.monthly, "False">>
    ELSE InsertMonthly(t.monthly, MonthWeeks(t.weekly, latest_pushed_at),
                       latest_pushed_at)

MonthlyStep(r, c, ts, conf, f) ==
    IF r.err # "none" \/ ~is_end_of_month_cst(ts, conf) THEN r
    ELSE IF f = "monthly" THEN [r EXCEPT !.err = "fault"]
    ELSE Rolled(r, c, "monthly", aggregate_monthly_stats(r.db[c], ts))

\* steps 8 and 9 of process_batch for one category
CategoryBlock(r, c, src, latest_calls, previous_calls, ts, id, conf, fault) ==
    LET f == IF fault.category = c THEN fault.step ELSE "none"
        r1 == StatsStep(r, c, latest_calls, previous_calls, ts, id, f)
        r2 == HourlyStep(r1, c, src, ts, f)
        r3 == DailyStep(r2, c, ts, conf, f)
        r4 == WeeklyStep(r3, c, ts, conf, f)
    IN  MonthlyStep(r4, c, ts, conf, f)

(***************************************************************************)
(* app/controllers/batch_controller.py                                     *)
(***************************************************************************)
\* a SQL comparison with NULL matches nothing
SqlEq(a, b) == a # NULL /\ b # NULL /\ a = b

\* Python truthiness of a batch ID: None and 0 are false
Truthy(batch_id) == batch_id # NULL /\ batch_id # 0

Stamps(src) == {src[i].PushedAt : i \in 1..Len(src)}

\* SELECT TOP 1 "Pushed At", "Batch ID" ... ORDER BY "Pushed At" DESC
LatestBatch(src) ==
    CHOOSE b \in Range(src) : \A o \in Range(src) : o.PushedAt <= b.PushedAt

\* SELECT TOP 1 BatchID FROM stat WHERE BatchID = %s
AlreadyProcessed(stat_table, batch_id) ==
    \E i \in 1..Len(stat_table) : SqlEq(stat_table[i].BatchID, batch_id)

\* SELECT TOP 1 BatchID, Timestamp FROM stat ORDER BY Timestamp DESC
LastTimestamp(stat_table) ==
    IF stat_table = <<>> THEN NULL
    ELSE MaxOf({stat_table[i].Timestamp : i \in 1..Len(stat_table)})

NoCallsDict == <<>>

\* the second-most-recent raw batch, whatever the category has recorded
PreviousPushedAtSecond(src, stat_table) ==
    IF Cardinality(Stamps(src)) > 1
    THEN MaxOf(Stamps(src) \ {MaxOf(Stamps(src))})
    ELSE NULL

\* the newest raw batch strictly before the category's last stat row
PreviousPushedAtBefore(src, stat_table) ==
    IF stat_table # <<>>
    THEN IF {s \in Stamps(src) : s < LastTimestamp(stat_table)} = {} THEN NULL
         ELSE MaxOf({s \in Stamps(src) : s < LastTimestamp(stat_table)})
    ELSE IF Cardinality(Stamps(src)) > 1
         THEN MaxOf(Stamps(src) \ {MaxOf(Stamps(src))})
         ELSE NULL

\* step 7: the previous batch of one category
PreviousPushedAt(src, stat_table) ==
    IF stat_table # <<>> THEN LastTimestamp(stat_table)
    ELSE IF Cardinality(Stamps(src)) > 1
         THEN MaxOf(Stamps(src) \ {MaxOf(Stamps(src))})
         ELSE NULL

PreviousCalls(src, stat_table) ==
    LET previous_pushed_at == PreviousPushedAt(src, stat_table)
    IN  IF previous_pushed_at = NULL THEN NoCallsDict
        ELSE deduplicate_records(SourceRows(src, {previous_pushed_at}))

NoFault == [category |-> "none", step |-> "none"]

Faults ==
    {NoFault, [category |-> "none", step |-> "connect"]}
    \cup [category : Categories,
          step : {"merge", "insert", "hourly", "daily", "weekly", "monthly"}]

DedupAlways(src, d) == FALSE
\* step 2: both categories already hold a record of a non-zero batch ID
DedupSkip(src, d) ==
    /\ Truthy(LatestBatch(src).BatchID)
    /\ AlreadyProcessed(d["Recyclers"].stat, LatestBatch(src).BatchID)
    /\ AlreadyProcessed(d["SmartSafes"].stat, LatestBatch(src).BatchID)

RunsCategoryAlways(src, d, c) == TRUE
\* steps 8 and 9: "if not recyclers_processed", "if not smart_safes_processed"
RunsCategory(src, d, c) == ~AlreadyProcessed(d[c].stat, LatestBatch(src).BatchID)

\* what process_batch returns after its last step
Outcome(r) ==
    [db |-> r.db, ret |-> (r.err = "none"), err |-> r.err, calls |-> r.calls]

\* one call of process_batch: [db, ret, err, calls]
process_batch(src, d, conf, fault) ==
    IF fault.step = "connect"
    THEN [db |-> d, ret |-> FALSE, err |-> "fault", calls |-> NoCalls]
    ELSE IF src = <<>> \/ DedupSkip(src, d)
    THEN [db |-> d, ret |-> FALSE, err |-> "none", calls |-> NoCalls]
    ELSE LET latest == LatestBatch(src)
             latest_calls == deduplicate_records(SourceRows(src, {latest.PushedAt}))
             Block(r, c) ==
                 IF RunsCategory(src, d, c)
                 THEN CategoryBlock(r, c, src, latest_calls,
                                    PreviousCalls(src, d[c].stat),
                                    latest.PushedAt, latest.BatchID, conf, fault)
                 ELSE r
             r0 == [db |-> d, err |-> "none", calls |-> NoCalls]
             r2 == Block(Block(r0, "Recyclers"), "SmartSafes")
         IN  Outcome(r2)

\* troubleshoot mode: reprocess_last_batch, [db, ret, err, calls]
reprocess_last_batch(src, d) ==
    LET last_recyclers == d["Recyclers"].stat
        last_smart_safes == d["SmartSafes"].stat
        Top(stat_table) ==
            CHOOSE row \in Range(stat_table) :
                \A o \in Range(stat_table) : o.Timestamp <= row.Timestamp
        last_processed ==
            IF last_recyclers # <<>> /\ last_smart_safes # <<>>
            THEN IF Top(last_recyclers).Timestamp >= Top(last_smart_safes).Timestamp
                 THEN Top(last_recyclers) ELSE Top(last_smart_safes)
            ELSE IF last_recyclers # <<>> THEN Top(last_recyclers)
            ELSE Top(last_smart_safes)
        last_pushed_at == last_processed.Timestamp
        exact == SourceRows(src, {last_pushed_at})
        near == SourceRows(src, {s \in Stamps(src) :
                                    s >= last_pushed_at - 1 /\ s <= last_pushed_at + 1})
        by_id == IF Truthy(last_processed.BatchID)
                 THEN UNION {src[i].rows : i \in {j \in 1..Len(src) :
                                 SqlEq(src[j].BatchID, last_processed.BatchID)}}
                 ELSE {}
        batch_records_raw == IF exact # {} THEN exact
                             ELSE IF near # {} THEN near ELSE by_id
        earlier == {s \in Stamps(src) : s < last_pushed_at}
        previous_calls == IF earlier = {} THEN NoCallsDict
                          ELSE deduplicate_records(SourceRows(src, {MaxOf(earlier)}))
        batch_calls == deduplicate_records(batch_records_raw)
        Redo(dd, c) ==
            [dd EXCEPT ![c] = process_equipment_type_stats(
                                  dd[c], batch_calls, previous_calls, last_pushed_at,
                                  last_processed.BatchID, c)]
    IN  IF (last_recyclers = <<>> /\ last_smart_safes = <<>>)
        THEN [db |-> d, ret |-> FALSE, err |-> "none", calls |-> NoCalls]
        ELSE IF batch_records_raw = {}
        THEN [db |-> d, ret |-> FALSE, err |-> "none", calls |-> NoCalls]
        ELSE [db |-> Redo(Redo(d, "Recyclers"), "SmartSafes"), ret |-> TRUE,
              err |-> "none", calls |-> NoCalls]

(***************************************************************************)
(* The raw batches that can arrive                                         *)
(***************************************************************************)
MaxStatRows == 4

EquipmentOf == <<
    <<"N", "4", "R", "0", "1">>,
    <<"r", "f", "2", "2">>,
    <<"T", "S", "9">> >>

OpenedAt == << At(60, 8, 0, 0), At(50, 9, 0, 0), At(60, 9, 0, 0) >>

Raw(id, call, appointment) ==
    [ ID |-> id, Service_Call_ID |-> call, Appointment |-> appointment,
      OpenDateTime |-> OpenedAt[call], Equipment_ID |-> EquipmentOf[call] ]

\* Fri 2026-01-30 10:05 and 10:35 (one date and hour), Sat 2026-01-31 23:59
\* (the end of a day, of a week and of a month)
Timeline == { At(60, 10, 5, 0), At(60, 10, 35, 0), At(61, 23, 59, 0) }

\* the rows the loader pushes at each time: the open calls of that moment.
\* At 10:05 calls 1, 2 and 3 are open at their first appointment; at 10:35
\* call 3 is gone, calls 1 and 2 are at their second appointment and a stale
\* row of call 1 is pushed with them; at 23:59 only call 3 is open (again).
SnapshotAt(pushed_at) ==
    CASE pushed_at = At(60, 10, 5, 0) ->
             {Raw(1, 1, 1), Raw(2, 2, 1), Raw(3, 3, 1)}
      [] pushed_at = At(60, 10, 35, 0) ->
             {Raw(1, 1, 1), Raw(4, 1, 2), Raw(2, 2, 2)}
      [] OTHER ->
             {Raw(3, 3, 1)}

DefaultConfig ==
    [ EOD_HOUR |-> 23, EOD_MINUTE |-> 59, WEEK_STARTS_ON |-> "Sunday",
      REPROCESS_LAST_BATCH_ON_STARTUP |-> FALSE ]

(***************************************************************************)
(* Actions                                                                 *)
(***************************************************************************)
Init ==
    /\ source = <<>>
    /\ db = [c \in Categories |-> EmptyTables]
    /\ cfg = DefaultConfig
    /\ faults = 0
    /\ last = [op |-> "init", ret |-> FALSE, err |-> "none", calls |-> NoCalls]

\* the upstream loader pushes a batch: a new "Pushed At", later than all others
Arrive(pushed_at, batch_id) ==
    /\ Len(source) < MaxBatches
    /\ \A s \in Stamps(source) : s < pushed_at
    /\ source' = Append(source, [PushedAt |-> pushed_at, BatchID |-> batch_id,
                                 rows |-> SnapshotAt(pushed_at)])
    /\ last' = [op |-> "arrive", ret |-> FALSE, err |-> "none", calls |-> NoCalls]
    /\ UNCHANGED <<db, cfg, faults>>

Record(op, out) ==
    [op |-> op, ret |-> out.ret, err |-> out.err, calls |-> out.calls]

\* one iteration of the poll loop
\* out is what process_batch returns in the current state under the fault
ProcessBatch(fault, out) ==
    /\ fault # NoFault => faults < MaxFaults /\ out.err = "fault"
    /\ \A c \in Categories : Len(out.db[c].stat) <= MaxStatRows
    /\ db' = out.db
    /\ faults' = IF out.err = "fault" THEN faults + 1 ELSE faults
    /\ last' = Record("process_batch", out)
    /\ UNCHANGED <<source, cfg>>

\* poll_for_batches up to its loop: troubleshoot mode reprocesses the last
\* batch before the loop starts
poll_for_batches_startup(src, d, conf) ==
    IF conf.REPROCESS_LAST_BATCH_ON_STARTUP
    THEN reprocess_last_batch(src, d)
    ELSE [db |-> d, ret |-> FALSE, err |-> "none", calls |-> NoCalls]

\* the service is started; out is what the startup code returns in the
\* current state
Startup(out) ==
    /\ \A c \in Categories : Len(out.db[c].stat) <= MaxStatRows
    /\ db' = out.db
    /\ last' = Record("startup", out)
    /\ UNCHANGED <<source, cfg, faults>>

Next ==
    \/ \E pushed_at \in Timeline, batch_id \in {Len(source) + 1, 0, NULL} :
          Arrive(pushed_at, batch_id)
    \/ \E fault \in Faults : ProcessBatch(fault, process_batch(source, db, cfg, fault))
    \/ Startup(poll_for_batches_startup(source, db, cfg))

Spec == Init /\ [][Next]_vars

\* the same service with troubleshoot mode switched on in config.json
InitTroubleshoot ==
    /\ source = <<>>
    /\ db = [c \in Categories |-> EmptyTables]
    /\ cfg = [DefaultConfig EXCEPT !.REPROCESS_LAST_BATCH_ON_STARTUP = TRUE]
    /\ faults = 0
    /\ last = [op |-> "init", ret |-> FALSE, err |-> "none", calls |-> NoCalls]

SpecTroubleshoot == InitTroubleshoot /\ [][Next]_vars

(***************************************************************************)
(* Consistency of the model: the tables are appended to in key order       *)
(***************************************************************************)
TablesOrdered ==
    \A c \in Categories :
        /\ \A i, j \in 1..Len(db[c].stat) :
               i <= j => db[c].stat[i].Timestamp <= db[c].stat[j].Timestamp
        /\ \A i, j \in 1..Len(db[c].hourly) :
               i < j => db[c].hourly[i].PeriodEnd < db[c].hourly[j].PeriodEnd
        /\ \A i, j \in 1..Len(db[c].daily) :
               i <= j => db[c].daily[i].Date <= db[c].daily[j].Date
        /\ \A i, j \in 1..Len(db[c].weekly) :
               i < j => db[c].weekly[i].WeekStartDate < db[c].weekly[j].WeekStartDate

(***************************************************************************)
(* Properties                                                              *)
(***************************************************************************)
StatKeys(c) == {db[c].stat[i].BatchID : i \in 1..Len(db[c].stat)}

RowsOfBatch(stat_table, batch_id) ==
    {i \in 1..Len(stat_table) : stat_table[i].BatchID = batch_id}

\* C1: whatever cycles ran, failed, were retried or followed a restart, a stat
\* table never holds two rows of one non-zero batch ID.  It holds in Spec,
\* where a restart reprocesses nothing; in SpecTroubleshoot the restart calls
\* reprocess_last_batch, which scores the last committed batch again.
C1_OneRecordPerBatchId ==
    \A c \in Categories : \A batch_id \in StatKeys(c) :
        Truthy(batch_id) => Cardinality(RowsOfBatch(db[c].stat, batch_id)) = 1

\* a cycle failed after the Recyclers row of a non-zero batch was committed,
\* and the retry has just scored Smart Safes only
C1_RetriedAfterPartialCycle ==
    /\ last.op = "process_batch" /\ last.ret /\ faults = 1
    /\ last.calls["Recyclers"].hourly = "not called"
    /\ last.calls["SmartSafes"].hourly = "True"
    /\ Truthy(LatestBatch(source).BatchID)
    /\ \A c \in Categories :
          Cardinality(RowsOfBatch(db[c].stat, LatestBatch(source).BatchID)) = 1

\* C2: a process_batch call that finds the latest batch with a non-zero ID
\* already recorded in both stat tables returns False and changes no table.
C2_DuplicateBatchIsNoOp ==
    [][ ( /\ last'.op = "process_batch"
          /\ source # <<>>
          /\ Truthy(LatestBatch(source).BatchID)
          /\ \A c \in Categories :
                \E i \in 1..Len(db[c].stat) :
                    db[c].stat[i].BatchID = LatestBatch(source).BatchID )
        => (db' = db /\ last'.ret = FALSE) ]_vars

\* a cycle has just returned False without an error on a batch both tables hold
C2_SkippedDuplicate ==
    /\ last.op = "process_batch" /\ ~last.ret /\ last.err = "none"
    /\ source # <<>>
    /\ Truthy(LatestBatch(source).BatchID)
    /\ \A c \in Categories :
          \E i \in 1..Len(db[c].stat) :
              db[c].stat[i].BatchID = LatestBatch(source).BatchID

\* C3: a process_batch call that finds the latest batch with a zero or null
\* ID and ends without an exception has committed one more row, of that
\* batch, to the stat table of each category.
C3_SentinelAlwaysScored ==
    [][ ( /\ last'.op = "process_batch"
          /\ last'.err = "none"
          /\ source # <<>>
          /\ ~Truthy(LatestBatch(source).BatchID) )
        => \A c \in Categories :
              /\ Len(db'[c].stat) = Len(db[c].stat) + 1
              /\ db'[c].stat[Len(db'[c].stat)].Timestamp = LatestBatch(source).PushedAt
      ]_vars

LedgerKeys(history) ==
    {<<history[i].Service_Call_ID, history[i].ClosedTimestamp>> :
        i \in 1..Len(history)}

IsPrefix(s, t) == Len(s) <= Len(t) /\ SubSeq(t, 1, Len(s)) = s

\* C4: whatever diffs ran, and however often the same diff ran again, a
\* ledger holds one entry per (Service_Call_ID, ClosedTimestamp).
C4_LedgerOneEntryPerClosure ==
    \A c \in Categories : \A i, j \in 1..Len(db[c].history) :
        ( /\ db[c].history[i].Service_Call_ID = db[c].history[j].Service_Call_ID
          /\ db[c].history[i].ClosedTimestamp = db[c].history[j].ClosedTimestamp )
        => i = j

\* the diff of one batch, with closures, has run twice for a category
C4_SameDiffRanTwice ==
    \E c \in Categories : \E i, j \in 1..Len(db[c].stat) :
        /\ i < j
        /\ db[c].stat[i].Timestamp = db[c].stat[j].Timestamp
        /\ db[c].stat[i].CallsClosedSinceLastBatch > 0
        /\ db[c].stat[j].CallsClosedSinceLastBatch > 0
        /\ \E k \in 1..Len(db[c].history) :
              db[c].history[k].ClosedTimestamp = db[c].stat[i].Timestamp

\* the calls of a category that its previous batch holds and the latest lacks
GoneCalls(c) ==
    LET IsOf(r) == (c = "Recyclers") = is_recycler(r.Equipment_ID)
        latest_calls ==
            deduplicate_records(SourceRows(source, {LatestBatch(source).PushedAt}))
        previous_calls == PreviousCalls(source, db[c].stat)
    IN  {k \in DOMAIN previous_calls :
            IsOf(previous_calls[k]) /\
            ~(k \in DOMAIN latest_calls /\ IsOf(latest_calls[k]))}

\* the closures reprocess_last_batch finds: the calls of the category that the
\* raw batch before the last scored one holds and the last scored one lacks
ReprocessedGone(c) ==
    LET IsOf(r) == (c = "Recyclers") = is_recycler(r.Equipment_ID)
        scored == UNION {{db[x].stat[i].Timestamp : i \in 1..Len(db[x].stat)} :
                            x \in Categories}
        ts == MaxOf(scored)
        earlier == {s \in Stamps(source) : s < ts}
        batch_calls == deduplicate_records(SourceRows(source, {ts}))
        previous_calls ==
            IF earlier = {} THEN NoCallsDict
            ELSE deduplicate_records(SourceRows(source, {MaxOf(earlier)}))
    IN  IF scored = {} THEN {}
        ELSE {<<k, ts>> : k \in {n \in DOMAIN previous_calls :
                  IsOf(previous_calls[n]) /\
                  ~(n \in DOMAIN batch_calls /\ IsOf(batch_calls[n]))}}

\* C5: a step never changes or removes a ledger entry; a step that runs the
\* diff (process_batch, or reprocess_last_batch at startup) adds entries only
\* for the calls of the category that are in its previous batch and not in
\* the batch it scores, keyed by that batch's timestamp, and a diff that was
\* committed has added every one of them; no other step adds an entry.
C5_LedgerGrowsByClosedCalls ==
    [][ \A c \in Categories :
          LET added == LedgerKeys(db'[c].history) \ LedgerKeys(db[c].history)
              Diffed(expected) ==
                  /\ added \subseteq expected
                  /\ Len(db'[c].stat) > Len(db[c].stat)
                        => expected \subseteq LedgerKeys(db'[c].history)
          IN  /\ IsPrefix(db[c].history, db'[c].history)
              /\ last'.op = "arrive" => db'[c].history = db[c].history
              /\ (last'.op = "process_batch" /\ source # <<>>) =>
                    Diffed({<<k, LatestBatch(source).PushedAt>> : k \in GoneCalls(c)})
              /\ last'.op = "startup" =>
                    IF cfg.REPROCESS_LAST_BATCH_ON_STARTUP
                    THEN Diffed(ReprocessedGone(c))
                    ELSE db'[c].history = db[c].history
      ]_vars

\* a committed diff of the latest batch found closed calls and logged them
C5_ClosuresLogged ==
    /\ last.op = "process_batch"
    /\ \E c \in Categories :
          /\ db[c].stat # <<>>
          /\ db[c].stat[Len(db[c].stat)].Timestamp = LatestBatch(source).PushedAt
          /\ db[c].stat[Len(db[c].stat)].CallsClosedSinceLastBatch = 2
          /\ Cardinality({k \in 1..Len(db[c].history) :
                 db[c].history[k].ClosedTimestamp = LatestBatch(source).PushedAt}) = 2

\* C6: aggregate_batch_stats called for a timestamp that already is the
\* PeriodEnd of a batch-aggregate row returns False and leaves the table as
\* it is, so the table holds one row per PeriodEnd.
C6_SecondAggregationSkipped ==
    [][ last'.op = "process_batch" =>
          \A c \in Categories :
            /\ ( /\ last'.calls[c].hourly # "not called"
                  /\ \E i \in 1..Len(db[c].hourly) :
                        db[c].hourly[i].PeriodEnd = LatestBatch(source).PushedAt )
                => (last'.calls[c].hourly = "False" /\ db'[c].hourly = db[c].hourly)
            /\ \A i, j \in 1..Len(db'[c].hourly) :
                  db'[c].hourly[i].PeriodEnd = db'[c].hourly[j].PeriodEnd => i = j
      ]_vars

\* a cycle has just called the aggregation a second time for one timestamp
C6_CalledTwice ==
    /\ last.op = "process_batch"
    /\ \E c \in Categories :
          /\ last.calls[c].hourly = "False"
          /\ Cardinality({i \in 1..Len(db[c].hourly) :
                 db[c].hourly[i].PeriodEnd = LatestBatch(source).PushedAt}) = 1

\* C7: a daily table holds at most one row per business date.
C7_OneDailyRecordPerDate ==
    \A c \in Categories : \A i, j \in 1..Len(db[c].daily) :
        db[c].daily[i].Date = db[c].daily[j].Date => i = j

WeekKeyOf(pushed_at) == get_week_number(get_cst_date(pushed_at), cfg.WEEK_STARTS_ON)

\* C8: a weekly or monthly rollup called for a key its table already holds
\* returns False without an error and leaves the table as it is, so the
\* weekly table holds one row per (Year, WeekNumber) and the monthly table
\* one per (Year, Month).
C8_ExistingWeekOrMonthSkipped ==
    [][ last'.op = "process_batch" =>
          \A c \in Categories :
            /\ ( /\ last'.calls[c].weekly # "not called"
                  /\ \E i \in 1..Len(db[c].weekly) :
                        /\ db[c].weekly[i].Year = WeekKeyOf(LatestBatch(source).PushedAt)[1]
                        /\ db[c].weekly[i].WeekNumber =
                              WeekKeyOf(LatestBatch(source).PushedAt)[2] )
                => (last'.calls[c].weekly = "False" /\ db'[c].weekly = db[c].weekly)
            /\ ( /\ last'.calls[c].monthly # "not called"
                  /\ \E i \in 1..Len(db[c].monthly) :
                        /\ db[c].monthly[i].Year =
                              YearOf(get_cst_date(LatestBatch(source).PushedAt))
                        /\ db[c].monthly[i].Month =
                              MonthOf(get_cst_date(LatestBatch(source).PushedAt)) )
                => (last'.calls[c].monthly = "False" /\ db'[c].monthly = db[c].monthly)
            /\ last'.calls[c].weekly # "IntegrityError"
            /\ last'.calls[c].monthly # "IntegrityError"
            /\ \A i, j \in 1..Len(db'[c].weekly) :
                  ( /\ db'[c].weekly[i].Year = db'[c].weekly[j].Year
                    /\ db'[c].weekly[i].WeekNumber = db'[c].weekly[j].WeekNumber )
                  => i = j
            /\ \A i, j \in 1..Len(db'[c].monthly) :
                  ( /\ db'[c].monthly[i].Year = db'[c].monthly[j].Year
                    /\ db'[c].monthly[i].Month = db'[c].monthly[j].Month )
                  => i = j
      ]_vars

\* a cycle has just called both rollups for a week and a month already held
C8_CalledForExistingKeys ==
    /\ last.op = "process_batch" /\ last.ret
    /\ \E c \in Categories :
          /\ last.calls[c].weekly = "False" /\ Len(db[c].weekly) = 1
          /\ last.calls[c].monthly = "False" /\ Len(db[c].monthly) = 1

\* C9: aggregate_batch_stats called for a batch whose business date and hour
\* already have a batch-aggregate row returns False, raises no error that
\* ends the cycle, and leaves the table as it is.
C9_SameDateHourSkipped ==
    [][ (last'.op = "process_batch" /\ source # <<>>) =>
          \A c \in Categories :
            ( /\ last'.calls[c].hourly # "not called"
              /\ \E i \in 1..Len(db[c].hourly) :
                    /\ db[c].hourly[i].Date = get_cst_date(LatestBatch(source).PushedAt)
                    /\ db[c].hourly[i].Hour = HourOf(LatestBatch(source).PushedAt) )
            => ( /\ last'.calls[c].hourly = "False"
                 /\ last'.err # "integrity"
                 /\ db'[c].hourly = db[c].hourly )
      ]_vars

InUnit(rate) == 0 <= rate[1] /\ rate[1] <= rate[2]

\* C10: the four rates of every stat row lie between 0 and 1.
C10_RatesWithinUnit ==
    \A c \in Categories : \A i \in 1..Len(db[c].stat) :
        /\ InUnit(db[c].stat[i].SameDayCloseRate)
        /\ InUnit(db[c].stat[i].FirstTimeFixRate)
        /\ InUnit(db[c].stat[i].FourteenDayReopenRate)
        /\ InUnit(db[c].stat[i].RepeatDispatchRate)

(***************************************************************************)
(* The batch diff on bounded inputs.  The source table holds the latest    *)
(* batch and, unless this is the first run, the batch before it; each is   *)
(* any snapshot of the calls of EquipmentOf.  The ledgers hold any of a    *)
(* few earlier closures, in and out of the 14-day window of the latest     *)
(* batch.  The one action runs process_equipment_type_stats for a category *)
(* as steps 5 to 8 of process_batch do on empty stat tables.               *)
(***************************************************************************)
MaxAppointment == 2

DiffCalls == 1..Len(EquipmentOf)

\* every call is absent from the snapshot or open at one appointment number
Snapshots ==
    {{Raw(k, k, a[k]) : k \in {n \in DiffCalls : a[n] > 0}} :
        a \in [DiffCalls -> 0..MaxAppointment]}

PreviousAt == At(60, 10, 5, 0)
LatestAt == At(60, 10, 35, 0)

\* fourteen_days_ago of the latest batch
WindowEdge == LatestAt - FourteenDays * SecondsPerDay

\* a ledger row written by an earlier diff
Closure(call, closed_at) ==
    [ Service_Call_ID |-> call, ClosedTimestamp |-> closed_at,
      OpenDateTime |-> closed_at - 3600, Equipment_ID |-> EquipmentOf[call] ]

EarlierClosures == <<
    Closure(2, WindowEdge - 1),
    Closure(2, WindowEdge),
    Closure(2, At(58, 12, 0, 0)),
    Closure(3, At(58, 12, 0, 0)) >>

\* the picked closures that belong to the history table of the category
LedgerOf(picked, category) ==
    LET Held(e) == /\ \E i \in picked : EarlierClosures[i] = e
                   /\ (category = "Recyclers") = is_recycler(e.Equipment_ID)
    IN  SelectSeq(EarlierClosures, Held)

SourceOf(previous, latest) ==
    IF previous = {}
    THEN << [PushedAt |-> LatestAt, BatchID |-> 1, rows |-> latest] >>
    ELSE << [PushedAt |-> PreviousAt, BatchID |-> 1, rows |-> previous],
            [PushedAt |-> LatestAt, BatchID |-> 2, rows |-> latest] >>

InitDiff ==
    /\ \E previous \in Snapshots, latest \in Snapshots \ {{}} :
          source = SourceOf(previous, latest)
    /\ \E picked \in SUBSET (1..Len(EarlierClosures)) :
          db = [c \in Categories |->
                   [EmptyTables EXCEPT !.history = LedgerOf(picked, c)]]
    /\ cfg = DefaultConfig
    /\ faults = 0
    /\ last = [op |-> "init", ret |-> FALSE, err |-> "none", calls |-> NoCalls]

\* what process_batch hands to process_equipment_type_stats for the category
DiffOf(src, d, c) ==
    process_equipment_type_stats(
        d[c], deduplicate_records(SourceRows(src, {LatestBatch(src).PushedAt})),
        PreviousCalls(src, d[c].stat), LatestBatch(src).PushedAt,
        LatestBatch(src).BatchID, c)

\* the diff of one category runs; out is the category's tables after it
Diff(c, out) ==
    /\ db[c].stat = <<>>
    /\ db' = [db EXCEPT ![c] = out]
    /\ last' = [op |-> "process_equipment_type_stats", ret |-> TRUE,
                err |-> "none", calls |-> NoCalls]
    /\ UNCHANGED <<source, cfg, faults>>

NextDiff == \E c \in Categories : Diff(c, DiffOf(source, db, c))

SpecDiff == InitDiff /\ [][NextDiff]_vars

(***************************************************************************)
(* Properties of the batch diff (SpecDiff)                                 *)
(***************************************************************************)
\* the category-filtered snapshots the diff of SpecDiff compares
DiffLatest(c) ==
    filter_by_equipment_type(deduplicate_records(source[Len(source)].rows), c)

DiffPrevious(c) ==
    IF Len(source) = 2
    THEN filter_by_equipment_type(deduplicate_records(source[1].rows), c)
    ELSE NoCallsDict

\* a quotient that was computed: a ZeroDivisionError leaves no number
IsNumber(rate) == rate[2] > 0

\* C11: the diff never divides by zero.  Every quotient of a committed stat
\* row is a number; the average appointment number is 0 when the filtered
\* latest snapshot is empty, the same-day-close rate, the first-time-fix rate
\* and the average appointments per completed call are 0 when no call closed,
\* the reopen rate is 0 when no call is newly opened, the repeat-dispatch
\* rate is 0 when latest holds no appointment number; and a diff that ran
\* committed its stat row.
C11_ZeroDenominatorsGiveZero ==
    /\ last.op = "process_equipment_type_stats" =>
          \E c \in Categories : Len(db[c].stat) = 1
    /\ \A c \in Categories : db[c].stat # <<>> =>
          LET row == db[c].stat[1]
              latest == DiffLatest(c)
              previous == DiffPrevious(c)
          IN  /\ IsNumber(row.AverageAppointmentNumber)
              /\ IsNumber(row.SameDayCloseRate)
              /\ IsNumber(row.FirstTimeFixRate)
              /\ IsNumber(row.AvgAppointmentsPerCompletedCall)
              /\ IsNumber(row.FourteenDayReopenRate)
              /\ IsNumber(row.RepeatDispatchRate)
              /\ DOMAIN latest = {} =>
                    /\ row.AverageAppointmentNumber = <<0, 1>>
                    /\ row.FourteenDayReopenRate = <<0, 1>>
                    /\ row.RepeatDispatchRate = <<0, 1>>
              /\ DOMAIN previous \ DOMAIN latest = {} =>
                    /\ row.SameDayCloseRate = <<0, 1>>
                    /\ row.FirstTimeFixRate = <<0, 1>>
                    /\ row.AvgAppointmentsPerCompletedCall = <<0, 1>>
              /\ DOMAIN latest \ DOMAIN previous = {} =>
                    row.FourteenDayReopenRate = <<0, 1>>

\* a stat row was committed for a category with no call in either snapshot:
\* every denominator of the diff was zero
C11_AllDenominatorsZero ==
    \E c \in Categories :
        /\ Len(db[c].stat) = 1
        /\ DOMAIN DiffLatest(c) = {}
        /\ DOMAIN DiffPrevious(c) = {}
        /\ db[c].stat[1].TotalOpenCalls = 0
        /\ db[c].stat[1].TotalAppointments = 0


\* the ledger rows the diff of SpecDiff wrote: the closures stamped with the
\* latest batch
LoggedNow(c) ==
    {db[c].history[i].Service_Call_ID :
        i \in {j \in 1..Len(db[c].history) :
                  db[c].history[j].ClosedTimestamp = LatestAt}}

\* C12: closed/open partition.  For every category whose filtered previous
\* snapshot is non-empty, the closed set (the calls the diff logged and
\* counted) shares no call with latest, the newly opened set shares no call
\* with previous, and the closed count plus the number of calls present in
\* both snapshots is the size of previous.
C12_ClosedOpenPartition ==
    \A c \in Categories :
        (db[c].stat # <<>> /\ DOMAIN DiffPrevious(c) # {}) =>
            LET latest == DiffLatest(c)
                previous == DiffPrevious(c)
                closed == closed_call_ids(latest, previous)
                newly == newly_opened_call_ids(latest, previous)
            IN  /\ LoggedNow(c) = closed
                /\ db[c].stat[1].CallsClosedSinceLastBatch = Cardinality(closed)
                /\ closed \cap DOMAIN latest = {}
                /\ newly \cap DOMAIN previous = {}
                /\ newly \subseteq DOMAIN latest
                /\ Cardinality(closed)
                       + Cardinality(DOMAIN latest \cap DOMAIN previous)
                   = Cardinality(DOMAIN previous)

\* a diff ran on a category where one call closed and another one opened
C12_ClosedAndOpened ==
    \E c \in Categories :
        /\ Len(db[c].stat) = 1
        /\ DOMAIN DiffPrevious(c) \ DOMAIN DiffLatest(c) # {}
        /\ DOMAIN DiffLatest(c) \ DOMAIN DiffPrevious(c) # {}
        /\ db[c].stat[1].CallsClosedSinceLastBatch = 1


\* the ledger rows of the window that name a call of the set
InWindow(history, calls) ==
    {i \in 1..Len(history) :
        /\ history[i].Service_Call_ID \in calls
        /\ history[i].ClosedTimestamp >= WindowEdge}

\* C13: first run.  When the category-filtered previous snapshot is empty
\* the diff infers no closure: the closed count, the same-day closures, the
\* first-time fixes and the follow-up count are 0, the ledger is left as it
\* was (no row stamped with the batch, only rows of earlier diffs), the
\* newly opened set is every call of latest (the reopen rate is taken over
\* all of latest), and with an empty ledger the reopen rate is 0.
C13_FirstRunInfersNoClosure ==
    \A c \in Categories :
        (db[c].stat # <<>> /\ DOMAIN DiffPrevious(c) = {}) =>
            LET row == db[c].stat[1]
                latest == DiffLatest(c)
            IN  /\ row.CallsClosedSinceLastBatch = 0
                /\ row.SameDayClosures = 0
                /\ row.SameDayCloseRate = <<0, 1>>
                /\ row.FirstTimeFixRate = <<0, 1>>
                /\ row.AvgAppointmentsPerCompletedCall = <<0, 1>>
                /\ row.TotalFollowUpAppointments = 0
                /\ LoggedNow(c) = {}
                /\ \E picked \in SUBSET (1..Len(EarlierClosures)) :
                      db[c].history = LedgerOf(picked, c)
                /\ newly_opened_call_ids(latest, DiffPrevious(c)) = DOMAIN latest
                /\ row.FourteenDayReopenRate =
                      Frac(Cardinality(InWindow(db[c].history, DOMAIN latest)),
                           Cardinality(DOMAIN latest))
                /\ db[c].history = <<>> => row.FourteenDayReopenRate = <<0, 1>>

\* a first diff ran on a category with open calls, with no batch before it
\* and an empty ledger
C13_FirstRunWithOpenCalls ==
    \E c \in Categories :
        /\ Len(db[c].stat) = 1
        /\ DOMAIN DiffPrevious(c) = {}
        /\ DOMAIN DiffLatest(c) # {}
        /\ db[c].history = <<>>
        /\ db[c].stat[1].TotalOpenCalls = Cardinality(DOMAIN DiffLatest(c))
        /\ Len(source) = 1


\* the calls of the set with at least one ledger row in the 14-day window
ReopenedCalls(history, calls) ==
    {k \in calls : \E i \in InWindow(history, calls) :
                       history[i].Service_Call_ID = k}

\* C14: the 14-day reopen rate of a stat row is the number of newly opened
\* calls that have at least one ledger row closed at or after the batch
\* timestamp minus 14 days, divided by the number of newly opened calls:
\* a call counts once however many ledger rows it has in the window.
C14_ReopenRateCountsEachCallOnce ==
    \A c \in Categories : db[c].stat # <<>> =>
        LET newly == newly_opened_call_ids(DiffLatest(c), DiffPrevious(c))
        IN  db[c].stat[1].FourteenDayReopenRate =
                Frac(Cardinality(ReopenedCalls(db[c].history, newly)),
                     Cardinality(newly))


\* C15: repeat dispatch.  The follow-up count of a stat row is the number of
\* calls present in both filtered snapshots whose appointment number in
\* latest is greater than in previous and greater than 1 (0 when previous
\* is empty); the unique-appointment count is the number of distinct
\* appointment numbers in latest, not the number of calls; the repeat
\* dispatch rate is their quotient, 0 when latest holds no appointment.
C15_FollowUpsOverUniqueAppointments ==
    \A c \in Categories : db[c].stat # <<>> =>
        LET row == db[c].stat[1]
            latest == DiffLatest(c)
            previous == DiffPrevious(c)
            progressed ==
                {k \in DOMAIN latest \cap DOMAIN previous :
                    /\ latest[k].Appointment > previous[k].Appointment
                    /\ latest[k].Appointment > 1}
            numbers == {latest[k].Appointment : k \in DOMAIN latest}
        IN  /\ row.TotalFollowUpAppointments = Cardinality(progressed)
            /\ DOMAIN previous = {} => row.TotalFollowUpAppointments = 0
            /\ row.TotalAppointments = Cardinality(numbers)
            /\ row.RepeatDispatchRate =
                  IF numbers = {} THEN <<0, 1>>
                  ELSE Frac(Cardinality(progressed), Cardinality(numbers))

\* two calls of a category both moved to the same higher appointment number:
\* two follow-ups over one distinct appointment number
C15_TwoFollowUpsOneAppointmentNumber ==
    \E c \in Categories :
        /\ Len(db[c].stat) = 1
        /\ db[c].stat[1].TotalOpenCalls = 2
        /\ db[c].stat[1].TotalFollowUpAppointments = 2
        /\ db[c].stat[1].TotalAppointments = 1


\* C16: a closed call is a same-day closure iff the business date of the
\* open timestamp of its previous-snapshot record is the business date of
\* the batch timestamp, and a first-time fix iff its appointment number in
\* the previous snapshot is 1; so the same-day closures and the first-time
\* fixes of a stat row never exceed its closed count.
C16_SameDayAndFirstTimeFix ==
    \A c \in Categories : db[c].stat # <<>> =>
        LET row == db[c].stat[1]
            previous == DiffPrevious(c)
            closed == DOMAIN previous \ DOMAIN DiffLatest(c)
            same_day == {k \in closed :
                            get_cst_date(previous[k].OpenDateTime)
                                = get_cst_date(row.Timestamp)}
            first_time == {k \in closed : previous[k].Appointment = 1}
        IN  /\ row.CallsClosedSinceLastBatch = Cardinality(closed)
            /\ row.SameDayClosures = Cardinality(same_day)
            /\ row.SameDayCloseRate =
                  Frac(Cardinality(same_day), Cardinality(closed))
            /\ row.FirstTimeFixRate =
                  Frac(Cardinality(first_time), Cardinality(closed))
            /\ row.SameDayClosures <= row.CallsClosedSinceLastBatch
            /\ row.SameDayCloseRate[1] <= row.SameDayCloseRate[2]
            /\ row.FirstTimeFixRate[1] <= row.FirstTimeFixRate[2]

\* two calls closed, one opened on the day of the batch and one ten days
\* earlier, one at its first appointment and one at a later one
C16_OneOfTwoSameDayOneOfTwoFirstTime ==
    \E c \in Categories :
        /\ Len(db[c].stat) = 1
        /\ db[c].stat[1].CallsClosedSinceLastBatch = 2
        /\ db[c].stat[1].SameDayClosures = 1
        /\ db[c].stat[1].FirstTimeFixRate = <<1, 2>>


(***************************************************************************)
(* app/utils/data.py and app/utils/equipment.py over bounded record lists  *)
(*                                                                         *)
(* The rows of one batch are drawn from every list of at most MaxRecordId  *)
(* raw rows (the ID column is an identity: no two rows share it) of two    *)
(* calls, with a recycler Equipment_ID, another one, an empty one or no    *)
(* Equipment_ID key at all.  process_batch deduplicates the rows; the diff *)
(* of each category filters the result.                                    *)
(***************************************************************************)
MaxRecordId == 3

RecordCalls == {1, 2}

RecordEquipment == {<<>>, EquipmentOf[2], EquipmentOf[3]}

\* a raw row whose Equipment_ID column is missing
Bare(id, call) ==
    [ ID |-> id, Service_Call_ID |-> call, Appointment |-> 1,
      OpenDateTime |-> OpenedAt[call] ]

WithEquipment(id, call, equipment_id) ==
    [ ID |-> id, Service_Call_ID |-> call, Appointment |-> 1,
      OpenDateTime |-> OpenedAt[call], Equipment_ID |-> equipment_id ]

\* no row or one row with the ID
Slots(id) ==
    {{}} \cup {{Bare(id, call)} : call \in RecordCalls}
         \cup {{WithEquipment(id, call, e)} :
                  call \in RecordCalls, e \in RecordEquipment}

InitRecords ==
    /\ \E r1 \in Slots(1), r2 \in Slots(2), r3 \in Slots(MaxRecordId) :
          source = << [PushedAt |-> LatestAt, BatchID |-> 1,
                       rows |-> r1 \cup r2 \cup r3] >>
    /\ db = [c \in Categories |-> EmptyTables]
    /\ cfg = DefaultConfig
    /\ faults = 0
    /\ last = [op |-> "init", ret |-> <<>>, err |-> "none", calls |-> <<>>]

\* latest_calls = deduplicate_records(latest_records_raw)
Deduplicate(out) ==
    /\ last.op = "init"
    /\ last' = [last EXCEPT !.op = "deduplicate_records", !.ret = out]
    /\ UNCHANGED <<source, db, cfg, faults>>

\* deduplicate_records applied to the records it returned
DeduplicateValues(out) ==
    /\ last.op = "deduplicate_records"
    /\ last' = [last EXCEPT !.op = "deduplicate_records of values", !.ret = out]
    /\ UNCHANGED <<source, db, cfg, faults>>

\* latest_filtered of both categories
Filter(out) ==
    /\ last.op = "deduplicate_records"
    /\ last' = [last EXCEPT !.op = "filter_by_equipment_type", !.calls = out]
    /\ UNCHANGED <<source, db, cfg, faults>>

\* calls_dict.values()
Values(calls_dict) == {calls_dict[k] : k \in DOMAIN calls_dict}

NextRecords ==
    \/ Deduplicate(deduplicate_records(source[1].rows))
    \/ DeduplicateValues(deduplicate_records(Values(last.ret)))
    \/ Filter([c \in Categories |-> filter_by_equipment_type(last.ret, c)])

SpecRecords == InitRecords /\ [][NextRecords]_vars


(***************************************************************************)
(* Properties of deduplication and of the category filter (SpecRecords)    *)
(***************************************************************************)
\* C17: deduplicate_records returns exactly one entry per distinct
\* Service_Call_ID of the raw rows, and the entry is the row with the
\* greatest ID among the rows of that call; an empty list gives an empty
\* mapping; deduplicating the values of the result returns the same mapping.
C17_DeduplicateKeepsGreatestId ==
    [][ /\ last'.op = "deduplicate_records" =>
            LET rows == source[1].rows
            IN  /\ DOMAIN last'.ret = {r.Service_Call_ID : r \in rows}
                /\ \A call \in DOMAIN last'.ret :
                      /\ last'.ret[call] \in rows
                      /\ last'.ret[call].Service_Call_ID = call
                      /\ \A q \in rows : q.Service_Call_ID = call =>
                            q.ID <= last'.ret[call].ID
                /\ rows = {} => last'.ret = <<>>
        /\ last'.op = "deduplicate_records of values" => last'.ret = last.ret
      ]_vars

\* a list with three rows of one call was deduplicated, and its result
\* deduplicated again
C17_ThreeRowsOfOneCall ==
    /\ last.op = "deduplicate_records of values"
    /\ Cardinality(source[1].rows) = 3
    /\ DOMAIN last.ret = {2}
    /\ last.ret[2].ID = 3

\* C18: the two category filters split a deduplicated batch: no call is in
\* both results, every call is in one of them with its record unchanged, a
\* record whose Equipment_ID is missing or empty is in the SmartSafes
\* result, and the two total-open counts add up to the size of the batch.
C18_CategoriesPartitionTheBatch ==
    last.op = "filter_by_equipment_type" =>
        LET recyclers == last.calls["Recyclers"]
            smart_safes == last.calls["SmartSafes"]
        IN  /\ DOMAIN recyclers \cap DOMAIN smart_safes = {}
            /\ DOMAIN recyclers \cup DOMAIN smart_safes = DOMAIN last.ret
            /\ \A k \in DOMAIN recyclers : recyclers[k] = last.ret[k]
            /\ \A k \in DOMAIN smart_safes : smart_safes[k] = last.ret[k]
            /\ \A k \in DOMAIN last.ret :
                  ("Equipment_ID" \notin DOMAIN last.ret[k]
                      \/ last.ret[k].Equipment_ID = <<>>)
                  => k \in DOMAIN smart_safes
            /\ Cardinality(DOMAIN recyclers) + Cardinality(DOMAIN smart_safes)
                  = Cardinality(DOMAIN last.ret)

\* a batch with a recycler, and a call without the Equipment_ID key, was
\* filtered
C18_RecyclerAndMissingEquipment ==
    /\ last.op = "filter_by_equipment_type"
    /\ DOMAIN last.calls["Recyclers"] = {1}
    /\ DOMAIN last.calls["SmartSafes"] = {2}
    /\ "Equipment_ID" \notin DOMAIN last.ret[2]


(***************************************************************************)
(* app/utils/timezone.py over bounded instants and EOD settings            *)
(*                                                                         *)
(* daily_summary.eod_hour and eod_minute come from the configuration file  *)
(* (settings.py), so the end-of-period checks are applied under several    *)
(* EOD times and both week starts to instants around midnight and around   *)
(* the EOD times of Sat 2026-01-31, Sun 2026-02-01 and Mon 2026-02-02.     *)
(***************************************************************************)
EodHours == {0, 17, 22, 23}
EodMinutes == {0, 29, 30, 59}
WeekStarts == {"Sunday", "Monday"}

ClockDays == {61, 62, 63}
ClockHours == {0, 1, 17, 18, 22, 23}
ClockMinutes == {0, 5, 29, 30, 35, 59}

InitClock ==
    /\ \E day \in ClockDays, h \in ClockHours, m \in ClockMinutes :
          source = << [PushedAt |-> At(day, h, m, 0), BatchID |-> 1,
                       rows |-> {Raw(1, 1, 1)}] >>
    /\ \E eod_hour \in EodHours, eod_minute \in EodMinutes, w \in WeekStarts :
          cfg = [DefaultConfig EXCEPT !.EOD_HOUR = eod_hour,
                                      !.EOD_MINUTE = eod_minute,
                                      !.WEEK_STARTS_ON = w]
    /\ db = [c \in Categories |-> EmptyTables]
    /\ faults = 0
    /\ last = [op |-> "init", ret |-> FALSE, err |-> "none", calls |-> NoCalls]

\* is_end_of_day_cst(latest_pushed_at) returned out
EndOfDay(out) ==
    /\ last.op = "init"
    /\ last' = [last EXCEPT !.op = "is_end_of_day_cst", !.ret = out]
    /\ UNCHANGED <<source, db, cfg, faults>>

\* is_end_of_week_cst(latest_pushed_at) returned out
EndOfWeek(out) ==
    /\ last.op = "init"
    /\ last' = [last EXCEPT !.op = "is_end_of_week_cst", !.ret = out]
    /\ UNCHANGED <<source, db, cfg, faults>>

\* is_end_of_month_cst(latest_pushed_at) returned out
EndOfMonth(out) ==
    /\ last.op = "init"
    /\ last' = [last EXCEPT !.op = "is_end_of_month_cst", !.ret = out]
    /\ UNCHANGED <<source, db, cfg, faults>>

NextClock ==
    \/ EndOfDay(is_end_of_day_cst(source[1].PushedAt, cfg))
    \/ EndOfWeek(is_end_of_week_cst(source[1].PushedAt, cfg))
    \/ EndOfMonth(is_end_of_month_cst(source[1].PushedAt, cfg))

SpecClock == InitClock /\ [][NextClock]_vars

(***************************************************************************)
(* Properties of the end-of-period checks (SpecClock)                      *)
(***************************************************************************)
\* minutes since midnight of the business time of the instant
MinuteOfDay(dt) == (dt % SecondsPerDay) \div 60

\* C19: is_end_of_day_cst is true exactly when the business time of day is
\* at or past the trigger time, the configured EOD time plus 30 minutes
\* with the overflow of the minutes carried into the next hour and past
\* midnight, and false before it; with EOD 23:59 the trigger is 00:29, and
\* the check is false at 00:05 and true at 00:35.
C19_EndOfDayFromTrigger ==
    last.op = "is_end_of_day_cst" =>
        LET now == MinuteOfDay(source[1].PushedAt)
            trigger == (cfg.EOD_HOUR * 60 + cfg.EOD_MINUTE + 30) % (24 * 60)
        IN  /\ last.ret = (now >= trigger)
            /\ (cfg.EOD_HOUR = 23 /\ cfg.EOD_MINUTE = 59) =>
                  /\ trigger = 29
                  /\ now = 5 => last.ret = FALSE
                  /\ now = 35 => last.ret = TRUE

\* with EOD 23:59 the check ran at 00:35 and returned true
C19_AfterMidnightTrigger ==
    /\ last.op = "is_end_of_day_cst"
    /\ cfg.EOD_HOUR = 23 /\ cfg.EOD_MINUTE = 59
    /\ MinuteOfDay(source[1].PushedAt) = 35
    /\ last.ret = TRUE

\* the weekday before the first day of the week
LastDayOfWeek(week_starts_on) == IF week_starts_on = "Sunday" THEN 5 ELSE 6

\* C20: is_end_of_week_cst is true iff the business-time weekday is the day
\* before the configured week start and the business time of day is at or
\* after the raw EOD hour and minute, any later time of that day included.
C20_EndOfWeekFromRawEod ==
    last.op = "is_end_of_week_cst" =>
        last.ret =
            (/\ Weekday(get_cst_date(source[1].PushedAt))
                    = LastDayOfWeek(cfg.WEEK_STARTS_ON)
             /\ MinuteOfDay(source[1].PushedAt)
                    >= cfg.EOD_HOUR * 60 + cfg.EOD_MINUTE)


\* C21: is_end_of_month_cst is true iff the business date is the last
\* calendar day of its month and the business time of day is at or after
\* the raw EOD hour and minute, any later time of that day included.
C21_EndOfMonthFromRawEod ==
    last.op = "is_end_of_month_cst" =>
        LET date == get_cst_date(source[1].PushedAt)
        IN  last.ret =
                (/\ date = MonthRec(date).first + MonthRec(date).len - 1
                 /\ MinuteOfDay(source[1].PushedAt)
                        >= cfg.EOD_HOUR * 60 + cfg.EOD_MINUTE)


(***************************************************************************)
(* get_week_start_end and get_week_number over the dates around a new year *)
(*                                                                         *)
(* aggregate_weekly_stats keys a weekly row by get_week_number of the      *)
(* business date of the batch.  The dates run from Sun 2025-12-21 to       *)
(* Thu 2026-01-15, across the weeks that hold 2026-01-01.                  *)
(***************************************************************************)
WeekDates == 20..45
WeekHours == {0, 23}

InitWeek ==
    /\ \E date \in WeekDates, h \in WeekHours :
          source = << [PushedAt |-> At(date, h, 59, 0), BatchID |-> 1,
                       rows |-> {[Raw(1, 1, 1) EXCEPT
                                     !.OpenDateTime = At(date, 0, 0, 0)]}] >>
    /\ \E w \in WeekStarts : cfg = [DefaultConfig EXCEPT !.WEEK_STARTS_ON = w]
    /\ db = [c \in Categories |-> EmptyTables]
    /\ faults = 0
    /\ last = [op |-> "init", ret |-> <<>>, err |-> "none", calls |-> NoCalls]

\* week_start, week_end = get_week_start_end(current_date_cst, WEEK_STARTS_ON)
WeekStartEnd(out) ==
    /\ last.op = "init"
    /\ last' = [last EXCEPT !.op = "get_week_start_end", !.ret = out]
    /\ UNCHANGED <<source, db, cfg, faults>>

\* year, week_number = get_week_number(current_date_cst, WEEK_STARTS_ON)
WeekNumber(out) ==
    /\ last.op = "init"
    /\ last' = [last EXCEPT !.op = "get_week_number", !.ret = out]
    /\ UNCHANGED <<source, db, cfg, faults>>

NextWeek ==
    \/ WeekStartEnd(get_week_start_end(get_cst_date(source[1].PushedAt),
                                       cfg.WEEK_STARTS_ON))
    \/ WeekNumber(get_week_number(get_cst_date(source[1].PushedAt),
                                  cfg.WEEK_STARTS_ON))

SpecWeek == InitWeek /\ [][NextWeek]_vars

(***************************************************************************)
(* Properties of the week key (SpecWeek)                                   *)
(***************************************************************************)
\* the day number of January 1 of the year
JanuaryFirst(year) == IF year = 2025 THEN 0 - 334 ELSE 31

\* C22: get_week_number returns (y, k) where y is the year of the first day
\* of the date's week and k counts the 7-day blocks from January 1 of y up
\* to that first day; so the key of a date is the key of the first day of
\* its week, and the seven dates of a week share one key, also when the
\* week spans a new year.
C22_WeekKeyFromWeekStart ==
    last.op = "get_week_number" =>
        LET date == get_cst_date(source[1].PushedAt)
            week_start == get_week_start_end(date, cfg.WEEK_STARTS_ON)[1]
            y == YearOf(week_start)
            k == ((week_start - JanuaryFirst(y)) \div 7) + 1
        IN  /\ last.ret = <<y, k>>
            /\ last.ret = get_week_number(week_start, cfg.WEEK_STARTS_ON)


(***************************************************************************)
(* A business day of hourly batches                                        *)
(*                                                                         *)
(* The loader pushes a batch at five past the hour on Fri 2026-01-30, from *)
(* 09:05 to 12:05, and the poll loop scores and aggregates it.  Each batch *)
(* is one of four snapshots of the open calls, so calls close, reopen and  *)
(* move to a later appointment during the day.  The EOD time is the        *)
(* default 23:59 or 10:30, inside the day.  aggregate_batch_stats is also  *)
(* called, once per category, for a later period in which no batch was     *)
(* scored.                                                                 *)
(***************************************************************************)
MaxDayBatches == 4

\* the batch of each hour, the first at 09:05
DayTimeline == [n \in 1..MaxDayBatches |-> At(60, 8 + n, 5, 0)]

DaySnapshots == {
    {Raw(1, 1, 1), Raw(2, 2, 1), Raw(3, 3, 1)},
    {Raw(2, 2, 1), Raw(3, 3, 2)},
    {Raw(1, 1, 2), Raw(3, 3, 1)},
    {Raw(2, 2, 2)} }

EodTimes == {<<23, 59>>, <<10, 30>>}

\* half an hour after a batch (the same hour) and a minute before the next
\* batch (the next hour)
MissingDelays == {1800, 3540}

InitDay ==
    /\ source = <<>>
    /\ db = [c \in Categories |-> EmptyTables]
    /\ \E eod \in EodTimes :
          cfg = [DefaultConfig EXCEPT !.EOD_HOUR = eod[1], !.EOD_MINUTE = eod[2]]
    /\ faults = 0
    /\ last = [op |-> "init", ret |-> FALSE, err |-> "none", calls |-> NoCalls]

\* the loader pushes the batch of the next hour; the poll loop, whose
\* interval is far shorter, has run on the batch before it
ArriveHourly(pushed_at, rows) ==
    /\ Len(source) < MaxDayBatches
    /\ pushed_at = DayTimeline[Len(source) + 1]
    /\ source # <<>> => last.op = "process_batch"
    /\ source' = Append(source, [PushedAt |-> pushed_at,
                                 BatchID |-> Len(source) + 1, rows |-> rows])
    /\ last' = [op |-> "arrive", ret |-> FALSE, err |-> "none", calls |-> NoCalls]
    /\ UNCHANGED <<db, cfg, faults>>

\* aggregate_batch_stats of a category for a period that ends after the last
\* batch; out is <<batch-aggregate table, result>>
AggregateLater(c, out) ==
    /\ db[c].hourly # <<>>
    /\ \A i \in 1..Len(db[c].hourly) : ~db[c].hourly[i].BatchMissing
    /\ last.op = "process_batch"
    /\ db' = [db EXCEPT ![c].hourly = out[1]]
    /\ last' = [op |-> "aggregate_batch_stats", ret |-> out[2] = "True",
                err |-> IF out[2] = "IntegrityError" THEN out[2] ELSE "none",
                calls |-> [NoCalls EXCEPT ![c].hourly = out[2]]]
    /\ UNCHANGED <<source, cfg, faults>>

NextDay ==
    \/ \E pushed_at \in Range(DayTimeline), rows \in DaySnapshots :
          ArriveHourly(pushed_at, rows)
    \/ ProcessBatch(NoFault, process_batch(source, db, cfg, NoFault))
    \/ \E c \in Categories, delay \in MissingDelays :
          AggregateLater(c, aggregate_batch_stats(
              db[c], source, get_last_batch_aggregation_timestamp(db[c].hourly),
              get_last_batch_aggregation_timestamp(db[c].hourly) + delay, c))

SpecDay == InitDay /\ [][NextDay]_vars


(***************************************************************************)
(* Properties of the batch-aggregate level (SpecDay)                       *)
(***************************************************************************)
\* the committed batch-aggregate row with the latest PeriodEnd
NewestPeriod(batch_table) ==
    CHOOSE h \in Range(batch_table) :
        \A g \in Range(batch_table) : g.PeriodEnd <= h.PeriodEnd

\* C23: missing-period continuity.  When aggregate_batch_stats runs for a
\* period without a stat row while the batch-aggregate table holds a row, it
\* raises no error and commits a row with the missing flag set, a batch
\* count of 0 and the total open, multi-appointment count and average
\* appointment number of the newest row committed before it.
C23_MissingPeriodCarriesSnapshot ==
    [][ \A c \in Categories :
          ( /\ last'.op = "aggregate_batch_stats"
            /\ last'.calls[c].hourly # "not called"
            /\ db[c].hourly # <<>>
            /\ \A i \in 1..Len(db[c].stat) :
                  db[c].stat[i].Timestamp <= NewestPeriod(db[c].hourly).PeriodEnd )
          => /\ last'.err = "none"
             /\ Len(db'[c].hourly) = Len(db[c].hourly) + 1
             /\ SubSeq(db'[c].hourly, 1, Len(db[c].hourly)) = db[c].hourly
             /\ LET row == db'[c].hourly[Len(db'[c].hourly)]
                    before == NewestPeriod(db[c].hourly)
                IN  /\ row.BatchMissing
                    /\ row.BatchCount = 0
                    /\ row.TotalOpenCalls = before.TotalOpenCalls
                    /\ row.TotalCallsWithMultiAppt = before.TotalCallsWithMultiAppt
                    /\ row.AverageAppointmentNumber = before.AverageAppointmentNumber
      ]_vars


\* the stat rows of the business date of a batch-aggregate row, up to the end
\* of its period
StatRowsOfDay(stat_table, h) ==
    LET SameDay(b) == /\ get_cst_date(b.Timestamp) = h.Date
                      /\ b.Timestamp <= h.PeriodEnd
    IN  SelectSeq(stat_table, SameDay)

\* C24: the same-day-closure count stored in the newest batch-aggregate row
\* of a business day is the sum of the same-day closures of all stat rows
\* of that day up to the end of its period: cumulative from the start of
\* the day, each same-day closure counted once.
C24_RollingSameDayClosuresCountOnce ==
    \A c \in Categories : db[c].hourly # <<>> =>
        LET h == NewestPeriod(db[c].hourly)
        IN  h.TotalSameDayClosures =
                SumSeq(Column(StatRowsOfDay(db[c].stat, h), "SameDayClosures"))


\* the first-time fixes a stat row reports: its closed calls that were at
\* their first appointment
FirstTimeFixesOf(b) == IntOfProduct(b.FirstTimeFixRate, b.CallsClosedSinceLastBatch)

\* C25: the first-time-fix running totals stored in the newest
\* batch-aggregate row of a business day are the cumulative values of the
\* day: the total first-time fixes is the number of first-time-fix closures
\* the diffs of that day detected so far, the total closed calls is the
\* number of closures they detected, and the running-total rate is their
\* quotient, 0 when no call closed.
C25_FirstTimeFixRunningTotals ==
    \A c \in Categories : db[c].hourly # <<>> =>
        LET h == NewestPeriod(db[c].hourly)
            rows == StatRowsOfDay(db[c].stat, h)
            fixes == SumSeq([i \in 1..Len(rows) |-> FirstTimeFixesOf(rows[i])])
            closed == SumSeq(Column(rows, "CallsClosedSinceLastBatch"))
        IN  /\ h.TotalFirstTimeFixes = fixes
            /\ h.TotalClosedCallsForFTF = closed
            /\ h.FirstTimeFixRate_RunningTotal =
                  IF closed = 0 THEN <<0, 1>> ELSE Frac(fixes, closed)


\* the configured EOD instant of a business date
EodOf(date) == At(date, cfg.EOD_HOUR, cfg.EOD_MINUTE, 0)

\* the stat rows scored from the EOD instant of the row's date up to the end
\* of its period
StatRowsSinceEod(stat_table, h) ==
    LET Since(b) == /\ b.Timestamp >= EodOf(h.Date)
                    /\ b.Timestamp <= h.PeriodEnd
    IN  SelectSeq(stat_table, Since)

\* C26: the rolling daily metrics of the batch-aggregate level reset at the
\* configured EOD time.  The first batch-aggregate row that ends at or after
\* the EOD instant (and aggregates a batch) accumulates nothing from the rows before it: its
\* same-day closures, first-time fixes, closed calls and follow-ups are
\* those of the stat rows scored since the EOD instant.  Rows that end
\* before the EOD instant keep accumulating: their same-day closures never
\* fall below those of an earlier row of the date.
C26_RollingMetricsResetAtEod ==
    \A c \in Categories : \A i \in 1..Len(db[c].hourly) :
        LET h == db[c].hourly[i]
            Earlier(g) == g.Date = h.Date /\ g.PeriodEnd < h.PeriodEnd
            since == StatRowsSinceEod(db[c].stat, h)
        IN  /\ ( /\ ~h.BatchMissing
                 /\ h.PeriodEnd >= EodOf(h.Date)
                 /\ \A g \in Range(db[c].hourly) :
                       Earlier(g) => g.PeriodEnd < EodOf(h.Date) )
                => /\ h.TotalSameDayClosures =
                         SumSeq(Column(since, "SameDayClosures"))
                   /\ h.TotalClosedCallsForFTF =
                         SumSeq(Column(since, "CallsClosedSinceLastBatch"))
                   /\ h.TotalFirstTimeFixes =
                         SumSeq([k \in 1..Len(since) |-> FirstTimeFixesOf(since[k])])
                   /\ h.TotalFollowUpAppointments =
                         SumSeq(Column(since, "TotalFollowUpAppointments"))
            /\ h.PeriodEnd < EodOf(h.Date) =>
                  \A g \in Range(db[c].hourly) :
                      Earlier(g) => g.TotalSameDayClosures <= h.TotalSameDayClosures


(***************************************************************************)
(* The poll loop across cycles                                             *)
(***************************************************************************)
TableNames == {"stat", "history", "hourly", "daily", "weekly", "monthly"}

\* C28: when a cycle failed after one category's stat row of the latest
\* batch (non-zero ID) was committed and before the other category's, the
\* next cycle that succeeds on that batch leaves exactly one stat row of the
\* batch in each category, the committed row being kept as it was, and
\* every row committed before it is unchanged.
C28_RetryCompletesPartialCycle ==
    [][ ( /\ source # <<>>
          /\ last.op = "process_batch" /\ ~last.ret /\ last.err # "none"
          /\ Truthy(LatestBatch(source).BatchID)
          /\ \E c \in Categories :
                RowsOfBatch(db[c].stat, LatestBatch(source).BatchID) # {}
          /\ \E c \in Categories :
                RowsOfBatch(db[c].stat, LatestBatch(source).BatchID) = {}
          /\ last'.op = "process_batch" /\ last'.ret )
        => \A c \in Categories :
              /\ Cardinality(RowsOfBatch(db'[c].stat,
                                         LatestBatch(source).BatchID)) = 1
              /\ \A name \in TableNames : IsPrefix(db[c][name], db'[c][name]) ]_vars

\* the retry of a cycle that failed between the two categories has just
\* succeeded on the second batch: it scored Smart Safes only, and both stat
\* tables hold the row of an earlier cycle and one row of the batch
C28_RetriedSecondBatch ==
    /\ last.op = "process_batch" /\ last.ret /\ faults = 1
    /\ last.calls["Recyclers"].hourly = "not called"
    /\ last.calls["SmartSafes"].hourly = "True"
    /\ Truthy(LatestBatch(source).BatchID)
    /\ \A c \in Categories :
          /\ Len(db[c].stat) = 2
          /\ Cardinality(RowsOfBatch(db[c].stat, LatestBatch(source).BatchID)) = 1


\* a cycle started now scores category c: the source holds a batch, the
\* cycle is not skipped as a duplicate and c has no row of the latest batch
Scores(c) ==
    /\ source # <<>>
    /\ ~DedupSkip(source, db)
    /\ RunsCategory(source, db, c)

\* the second-most-recent raw batch, NULL when the source holds one batch
SecondMostRecent ==
    IF Cardinality(Stamps(source)) > 1
    THEN MaxOf(Stamps(source) \ {MaxOf(Stamps(source))})
    ELSE NULL

\* C29: in process_batch the previous comparison batch of a category is
\* the most recent raw batch pushed strictly before the timestamp of the
\* category's last committed stat row, or, when the category has no stat
\* row, the second-most-recent raw batch (none when only one batch exists).
C29_PreviousStrictlyBeforeLastRecord ==
    \A c \in Categories :
        Scores(c) =>
            LET before == {s \in Stamps(source) : s < LastTimestamp(db[c].stat)}
            IN  PreviousPushedAt(source, db[c].stat) =
                    IF db[c].stat = <<>> THEN SecondMostRecent
                    ELSE IF before = {} THEN NULL ELSE MaxOf(before)

\* C29 (amended): in process_batch the previous comparison batch of a
\* category is the raw batch pushed at the timestamp of the category's last
\* committed stat row, that is the batch the row was scored from, or, when
\* the category has no stat row, the second-most-recent raw batch (none
\* when only one batch exists).
C29_PreviousIsLastRecordedBatch ==
    \A c \in Categories :
        Scores(c) =>
            IF db[c].stat = <<>>
            THEN PreviousPushedAt(source, db[c].stat) = SecondMostRecent
            ELSE /\ PreviousPushedAt(source, db[c].stat) =
                        db[c].stat[Len(db[c].stat)].Timestamp
                 /\ PreviousPushedAt(source, db[c].stat) \in Stamps(source)

\* three batches were pushed, the first two are recorded for Recyclers and
\* the third is about to be scored against the second
C29_ThirdBatchAwaitsScoring ==
    /\ Len(source) = 3
    /\ Len(db["Recyclers"].stat) = 2
    /\ Scores("Recyclers")
    /\ PreviousPushedAt(source, db["Recyclers"].stat) = source[2].PushedAt
    /\ source[1].PushedAt < source[2].PushedAt


\* C30: in every diff run by process_batch the previous comparison batch of
\* a category that has stat rows is the batch of the newest row of that
\* category's own stat table, whatever the other category has recorded, and
\* the previous batch of either category is never pushed later than the
\* batch being scored.
C30_PreviousFromOwnRecordNeverLater ==
    \A c \in Categories :
        Scores(c) =>
            /\ db[c].stat # <<>> =>
                  /\ \E i \in 1..Len(db[c].stat) :
                        db[c].stat[i].Timestamp = PreviousPushedAt(source, db[c].stat)
                  /\ \A i \in 1..Len(db[c].stat) :
                        db[c].stat[i].Timestamp <= PreviousPushedAt(source, db[c].stat)
            /\ PreviousPushedAt(source, db[c].stat) # NULL =>
                  PreviousPushedAt(source, db[c].stat) <= LatestBatch(source).PushedAt

\* a cycle is about to score both categories against different previous
\* batches: Smart Safes missed the batch Recyclers recorded last
C30_CategoriesDifferInPrevious ==
    /\ Scores("Recyclers") /\ Scores("SmartSafes")
    /\ db["Recyclers"].stat # <<>> /\ db["SmartSafes"].stat # <<>>
    /\ PreviousPushedAt(source, db["SmartSafes"].stat)
          < PreviousPushedAt(source, db["Recyclers"].stat)
    /\ PreviousPushedAt(source, db["Recyclers"].stat) < LatestBatch(source).PushedAt


(***************************************************************************)
(* poll_for_batches: the loop itself.  In this specification last.at is    *)
(* the statement the loop is at ("call": process_batch of line 835,        *)
(* "sleep": time.sleep of line 844, "retry_sleep": time.sleep of line 854, *)
(* "stopped": after the break of line 850, "interrupted": a                *)
(* KeyboardInterrupt raised in the handler of line 851 has left the        *)
(* function) and last.waited the seconds slept since the last cycle ended. *)
(***************************************************************************)
\* poll_interval_seconds = poll_interval_minutes * 60, 5 minutes by default
PollIntervalSeconds == 300

\* where the loop goes after a cycle: the sleep of the try block when
\* process_batch returned, the sleep of "except Exception" when it raised
after_cycle_retry_now(raised) == IF raised THEN "call" ELSE "sleep"

after_cycle(raised) == IF raised THEN "retry_sleep" ELSE "sleep"

InitPoll ==
    /\ source = <<>>
    /\ db = [c \in Categories |-> EmptyTables]
    /\ cfg = DefaultConfig
    /\ faults = 0
    /\ last = [op |-> "init", ret |-> FALSE, err |-> "none", calls |-> NoCalls,
               at |-> "call", waited |-> 0]

\* the upstream loader pushes a batch while the service runs
PollArrive(pushed_at) ==
    /\ last.at \in {"call", "sleep", "retry_sleep"}
    /\ Len(source) < MaxBatches
    /\ \A s \in Stamps(source) : s < pushed_at
    /\ source' = Append(source, [PushedAt |-> pushed_at,
                                 BatchID |-> Len(source) + 1,
                                 rows |-> SnapshotAt(pushed_at)])
    /\ UNCHANGED <<db, cfg, faults, last>>

\* line 835: one call of process_batch; out is what it does in the current
\* state under the fault.  With raised, conn.close() of its finally clause
\* raises after the work and the exception reaches the loop.
PollCycle(fault, raised, out) ==
    /\ last.at = "call"
    /\ fault # NoFault => faults < MaxFaults /\ out.err = "fault"
    /\ raised => fault.step # "connect"
    /\ db' = out.db
    /\ faults' = IF out.err = "fault" THEN faults + 1 ELSE faults
    /\ last' = [op |-> "process_batch",
                ret |-> IF raised THEN FALSE ELSE out.ret,
                err |-> IF raised THEN "raised" ELSE out.err,
                calls |-> out.calls,
                at |-> after_cycle(raised), waited |-> 0]
    /\ UNCHANGED <<source, cfg>>

\* lines 844 and 854: time.sleep(poll_interval_seconds) returns
PollSleep ==
    /\ last.at \in {"sleep", "retry_sleep"}
    /\ last' = [last EXCEPT !.op = "sleep", !.at = "call",
                            !.waited = @ + PollIntervalSeconds]
    /\ UNCHANGED <<source, db, cfg, faults>>

\* Ctrl+C during a sleep or between two statements of the loop: "except
\* KeyboardInterrupt" guards the try block only, not the sleep of the other
\* handler
PollInterrupt ==
    /\ last.at \in {"call", "sleep", "retry_sleep"}
    /\ last' = [last EXCEPT !.op = "KeyboardInterrupt",
                            !.at = IF @ = "retry_sleep" THEN "interrupted"
                                   ELSE "stopped"]
    /\ UNCHANGED <<source, db, cfg, faults>>

\* Ctrl+C inside process_batch: the statements after the interrupted one do
\* not run, the finally clause closes the connection and line 846 breaks.
\* out is process_batch cut short at the step of the fault.
PollInterruptCycle(fault, out) ==
    /\ last.at = "call"
    /\ fault # NoFault /\ out.err = "fault"
    /\ db' = out.db
    /\ last' = [op |-> "KeyboardInterrupt", ret |-> FALSE, err |-> "interrupt",
                calls |-> out.calls, at |-> "stopped", waited |-> 0]
    /\ UNCHANGED <<source, cfg, faults>>

NextPoll ==
    \/ \E pushed_at \in Timeline : PollArrive(pushed_at)
    \/ \E fault \in Faults, raised \in BOOLEAN :
          PollCycle(fault, raised, process_batch(source, db, cfg, fault))
    \/ PollSleep
    \/ PollInterrupt
    \/ \E fault \in Faults : PollInterruptCycle(fault, process_batch(source, db, cfg, fault))

\* a call of process_batch ends, whatever its outcome, and a sleep ends
PollFairness ==
    /\ WF_last(/\ last.at = "call"
               /\ last' \in
                     [ op : {"process_batch"}, ret : BOOLEAN,
                       err : {"none", "fault", "integrity", "raised"},
                       calls : [Categories ->
                                   [hourly : {"not called", "True", "False",
                                              "IntegrityError"},
                                    weekly : {"not called", "True", "False",
                                              "IntegrityError"},
                                    monthly : {"not called", "True", "False",
                                               "IntegrityError"}]],
                       at : {"sleep", "retry_sleep"}, waited : {0} ])
    /\ WF_vars(PollSleep)

SpecPoll == InitPoll /\ [][NextPoll]_vars /\ PollFairness

\* a call of process_batch has just ended
CycleEnds == last.at = "call" /\ last'.op = "process_batch"

\* C27: whatever a cycle does (it processes a batch, finds none, fails with
\* a database or other error that process_batch catches, or lets an
\* exception reach the loop) the loop goes to a sleep of one poll interval;
\* every cycle but the first starts after exactly one poll interval of
\* sleep since the cycle before it; the loop leaves its statements only by
\* a KeyboardInterrupt; and unless interrupted it runs cycles for ever.
C27_LoopSleepsOneIntervalAndGoesOn ==
    /\ [][ /\ CycleEnds =>
                /\ last'.at \in {"sleep", "retry_sleep"}
                /\ last.op = "init" \/ last.waited = PollIntervalSeconds
           /\ last'.at \in {"stopped", "interrupted"} =>
                 last'.op = "KeyboardInterrupt" ]_vars
    /\ \/ []<>(last.at = "call") /\ []<>(last.op = "process_batch")
       \/ <>(last.op = "KeyboardInterrupt")

\* a cycle scored a batch and then let an exception reach the loop; the
\* loop has slept one interval in its handler and is about to call
\* process_batch again
C27_SleptAfterRaisedCycle ==
    /\ last.op = "sleep" /\ last.err = "raised" /\ last.at = "call"
    /\ last.waited = PollIntervalSeconds
    /\ \E c \in Categories : last.calls[c].hourly = "True"


(***************************************************************************)
(* process_batch with its tracking step (step 7).  In this specification   *)
(* the rows of the source table carry the vendor call number and the       *)
(* columns the tracking step writes: tracking stands for                    *)
(* querytrackingnumber, queryparts, trackingmatch and tracking_status.     *)
(***************************************************************************)
\* the vendor call number of each call: call 2 has none
VendorCallOf == << "7000001", "", "7000003" >>

WithTracking(row) ==
    [ ID |-> row.ID, Service_Call_ID |-> row.Service_Call_ID,
      Appointment |-> row.Appointment, OpenDateTime |-> row.OpenDateTime,
      Equipment_ID |-> row.Equipment_ID,
      VendorCallNumber |-> VendorCallOf[row.Service_Call_ID],
      tracking |-> "unset" ]

\* what can happen in the tracking step: all lookups succeed, TrackingService()
\* raises, the lookup of a call fails in its worker, the handling of a call's
\* result raises, the UPDATE of a call raises (both in the try block and in
\* its handler), or the UPDATE of a call without vendor call number raises
TrackingOk == [kind |-> "ok", call |-> 0]

TrackingOutcomes ==
    {TrackingOk, [kind |-> "service", call |-> 0]}
    \cup [kind : {"lookup", "status", "update"}, call : {1}]
    \cup {[kind |-> "default_update", call |-> 2]}

\* the value the tracking step writes for one call of the latest batch, or
\* "unchanged" when no UPDATE of the call succeeds
written_tracking(record, tracking) ==
    IF tracking.kind \in {"service", "default_update"} THEN
        IF tracking.kind = "default_update" /\ record.VendorCallNumber = ""
                                            /\ record.Service_Call_ID # tracking.call
        THEN "none"
        ELSE "unchanged"
    ELSE IF record.VendorCallNumber = "" THEN "none"
    ELSE IF record.Service_Call_ID # tracking.call THEN "found"
    ELSE CASE tracking.kind = "lookup" -> "none"
           [] tracking.kind = "status" -> "error"
           [] tracking.kind = "update" -> "unchanged"
           [] OTHER -> "found"

\* UPDATE source SET ... WHERE Service_Call_ID = %s, for every call of the
\* latest batch: the rows of the call in every batch are written
update_tracking_columns(src, latest_calls, tracking) ==
    LET Written(row) ==
            IF row.Service_Call_ID \notin DOMAIN latest_calls THEN row
            ELSE IF written_tracking(latest_calls[row.Service_Call_ID], tracking)
                       = "unchanged" THEN row
            ELSE [row EXCEPT !.tracking =
                     written_tracking(latest_calls[row.Service_Call_ID], tracking)]
    IN  [i \in 1..Len(src) |->
            [src[i] EXCEPT !.rows = {Written(row) : row \in src[i].rows}]]

\* lines 370-373: an exception of the tracking step is logged and the cycle
\* goes on
after_tracking_raises(r, tracking) ==
    IF tracking.kind \in {"service", "default_update"}
    THEN [r EXCEPT !.err = "fault"] ELSE r

after_tracking(r, tracking) == r

\* one call of process_batch with its tracking step: [db, ret, err, calls,
\* source].  The latest and previous calls are read before the step, the
\* rollups read the source table after it.
process_batch_tracking(src, d, conf, tracking) ==
    IF src = <<>> \/ DedupSkip(src, d)
    THEN [db |-> d, ret |-> FALSE, err |-> "none", calls |-> NoCalls, source |-> src]
    ELSE LET latest == LatestBatch(src)
             latest_calls == deduplicate_records(SourceRows(src, {latest.PushedAt}))
             tracked == update_tracking_columns(src, latest_calls, tracking)
             Block(r, c) ==
                 IF RunsCategory(src, d, c)
                 THEN CategoryBlock(r, c, tracked, latest_calls,
                                    PreviousCalls(src, d[c].stat),
                                    latest.PushedAt, latest.BatchID, conf, NoFault)
                 ELSE r
             r0 == after_tracking([db |-> d, err |-> "none", calls |-> NoCalls],
                                  tracking)
             r2 == Block(Block(r0, "Recyclers"), "SmartSafes")
         IN  [db |-> r2.db, ret |-> (r2.err = "none"), err |-> r2.err,
              calls |-> r2.calls, source |-> tracked]

InitTracking ==
    /\ source = <<>>
    /\ db = [c \in Categories |-> EmptyTables]
    /\ cfg = DefaultConfig
    /\ faults = 0
    /\ last = [op |-> "init", ret |-> FALSE, err |-> "none", calls |-> NoCalls,
               tracking |-> TrackingOk]

ArriveTracking(pushed_at) ==
    /\ Len(source) < MaxBatches
    /\ \A s \in Stamps(source) : s < pushed_at
    /\ source' = Append(source,
                        [PushedAt |-> pushed_at, BatchID |-> Len(source) + 1,
                         rows |-> {WithTracking(row) : row \in SnapshotAt(pushed_at)}])
    /\ UNCHANGED <<db, cfg, faults, last>>

\* one cycle; out is what process_batch does in the current state under the
\* outcome of the tracking step
CycleTracking(tracking, out) ==
    /\ source' = out.source
    /\ db' = out.db
    /\ last' = [op |-> "process_batch", ret |-> out.ret, err |-> out.err,
                calls |-> out.calls, tracking |-> tracking]
    /\ UNCHANGED <<cfg, faults>>

NextTracking ==
    \/ \E pushed_at \in Timeline : ArriveTracking(pushed_at)
    \/ \E tracking \in TrackingOutcomes :
          CycleTracking(tracking, process_batch_tracking(source, db, cfg, tracking))

SpecTracking == InitTracking /\ [][NextTracking]_vars

\* the source table without what the tracking step wrote
Untracked(src) ==
    [i \in 1..Len(src) |->
        [src[i] EXCEPT !.rows = {[row EXCEPT !.tracking = "unset"] : row \in src[i].rows}]]

\* two cycles commit the same tables and end the same way
SameCommit(a, b) == a.db = b.db /\ a.err = b.err /\ a.ret = b.ret

\* C31: from one state, cycles that differ only in the outcome of the
\* tracking step commit the same stat, ledger and rollup tables and end
\* the same way (none is aborted by a tracking error), and what earlier
\* cycles wrote to the tracking columns has no part in the result.
C31_TrackingDoesNotInterfere ==
    /\ \A tracking \in TrackingOutcomes :
          SameCommit(process_batch_tracking(source, db, cfg, tracking),
                     process_batch_tracking(source, db, cfg, TrackingOk))
    /\ SameCommit(process_batch_tracking(source, db, cfg, TrackingOk),
                  process_batch_tracking(Untracked(source), db, cfg, TrackingOk))

\* the tracking service could not be created in a cycle that scored the
\* second batch for both categories, with closures logged, after a cycle in
\* which the handling of a call's result raised
C31_ScoredWithoutTrackingService ==
    /\ last.op = "process_batch" /\ last.tracking.kind = "service" /\ last.ret
    /\ \A c \in Categories : Len(db[c].stat) = 2
    /\ \E c \in Categories : db[c].history # <<>>
    /\ \E row \in source[1].rows : row.tracking = "error"


\* the batch ID reprocess_last_batch picks: that of the newest stat row of
\* the two tables (Recyclers on a tie)
LastProcessedId ==
    LET rows == [c \in Categories |-> db[c].stat]
        Newest(c) == rows[c][Len(rows[c])]
    IN  IF rows["Recyclers"] # <<>> /\ rows["SmartSafes"] # <<>>
        THEN IF Newest("Recyclers").Timestamp >= Newest("SmartSafes").Timestamp
             THEN Newest("Recyclers").BatchID ELSE Newest("SmartSafes").BatchID
        ELSE IF rows["Recyclers"] # <<>> THEN Newest("Recyclers").BatchID
        ELSE Newest("SmartSafes").BatchID

\* C32: a start in troubleshoot mode that reprocesses the last batch (of a
\* non-zero ID) leaves exactly one stat row of that batch ID in each stat
\* table, and every stat row committed before is still there unchanged.
C32_ReprocessKeepsOneRecord ==
    [][ ( /\ last'.op = "startup" /\ last'.ret
          /\ \E c \in Categories : db[c].stat # <<>>
          /\ Truthy(LastProcessedId) )
        => \A c \in Categories :
              /\ Cardinality(RowsOfBatch(db'[c].stat, LastProcessedId)) = 1
              /\ IsPrefix(db[c].stat, db'[c].stat) ]_vars


\* C33: the windows of a category's batch-aggregate rows are pairwise
\* disjoint: a later row starts where an earlier one ended or after it, so
\* the rows together count no more stat rows than the stat table holds and
\* no more closed calls than the stat rows report.
C33_AggregationWindowsDisjoint ==
    \A c \in Categories :
        /\ \A i, j \in 1..Len(db[c].hourly) :
              i < j => /\ db[c].hourly[i].PeriodEnd <= db[c].hourly[j].PeriodStart
                       /\ db[c].hourly[j].PeriodStart < db[c].hourly[j].PeriodEnd
        /\ SumSeq(Column(db[c].hourly, "BatchCount")) <= Len(db[c].stat)
        /\ SumSeq(Column(db[c].hourly, "TotalClosedCalls"))
              <= SumSeq(Column(db[c].stat, "CallsClosedSinceLastBatch"))

\* a category has two batch-aggregate rows that each cover stat rows, the
\* second with closed calls
C33_TwoWindowsWithBatches ==
    \E c \in Categories :
        /\ Len(db[c].hourly) >= 2
        /\ db[c].hourly[1].BatchCount >= 1
        /\ db[c].hourly[2].BatchCount >= 1
        /\ db[c].hourly[2].TotalClosedCalls >= 1


\* C34: in every batch-aggregate row that covers a batch the rolling
\* same-day-close rate lies in [0,1]: the rolling same-day closures of the
\* row do not exceed the calls the category's stat rows report closed on
\* the row's date up to the end of its period.
C34_RollingSameDayRateWithinUnit ==
    \A c \in Categories : \A i \in 1..Len(db[c].hourly) :
        ~db[c].hourly[i].BatchMissing =>
        /\ InUnit(db[c].hourly[i].SameDayCloseRate)
        /\ db[c].hourly[i].TotalSameDayClosures <=
              SumSeq(Column(StatRowsOfDay(db[c].stat, db[c].hourly[i]),
                            "CallsClosedSinceLastBatch"))


\* both stat tables hold a row of the i-th raw batch
Recorded(i) ==
    /\ i <= Len(source)
    /\ \A c \in Categories :
        \E k \in 1..Len(db[c].stat) : db[c].stat[k].BatchID = source[i].BatchID

\* C35: when the loop is scheduled fairly, is not interrupted and no cycle
\* fails, every raw batch that arrives is eventually recorded in both stat
\* tables, also when several batches arrive between two cycles.
C35_EveryBatchEventuallyRecorded ==
    ([](last.err = "none") /\ [](last.op # "KeyboardInterrupt"))
        => \A i \in 1..MaxBatches : [](Len(source) >= i => <>Recorded(i))


(***************************************************************************)
(* The last two days of a week: batches of Friday 2026-01-30 and of        *)
(* Saturday 2026-01-31, scored by the poll loop under an EOD time of 23:59 *)
(* (the default) or of 17:00.                                              *)
(***************************************************************************)
MaxWeekEndBatches == 4

\* Fri 10:05 and 17:35, Sat 17:05, 17:35 and 23:59
WeekEndTimeline ==
    { At(60, 10, 5, 0), At(60, 17, 35, 0),
      At(61, 17, 5, 0), At(61, 17, 35, 0), At(61, 23, 59, 0) }

WeekEndEodTimes == {<<23, 59>>, <<17, 0>>}

InitWeekEnd ==
    /\ source = <<>>
    /\ db = [c \in Categories |-> EmptyTables]
    /\ \E eod \in WeekEndEodTimes :
          cfg = [DefaultConfig EXCEPT !.EOD_HOUR = eod[1], !.EOD_MINUTE = eod[2]]
    /\ faults = 0
    /\ last = [op |-> "init", ret |-> FALSE, err |-> "none", calls |-> NoCalls]

\* the loader pushes a later batch
ArriveWeekEnd(pushed_at) ==
    /\ Len(source) < MaxWeekEndBatches
    /\ \A s \in Stamps(source) : s < pushed_at
    /\ source' = Append(source, [PushedAt |-> pushed_at,
                                 BatchID |-> Len(source) + 1,
                                 rows |-> SnapshotAt(pushed_at)])
    /\ last' = [op |-> "arrive", ret |-> FALSE, err |-> "none", calls |-> NoCalls]
    /\ UNCHANGED <<db, cfg, faults>>

NextWeekEnd ==
    \/ \E pushed_at \in WeekEndTimeline : ArriveWeekEnd(pushed_at)
    \/ ProcessBatch(NoFault, process_batch(source, db, cfg, NoFault))

SpecWeekEnd == InitWeekEnd /\ [][NextWeekEnd]_vars

\* C36: for every EOD time, a category's committed weekly record is preceded
\* or accompanied by the daily record of the last day of its week: the daily
\* table holds a row whose Date is the record's WeekEndDate.
C36_WeeklyAfterLastDaily ==
    \A c \in Categories : \A i \in 1..Len(db[c].weekly) :
        \E k \in 1..Len(db[c].daily) :
            db[c].daily[k].Date = db[c].weekly[i].WeekEndDate


\* the stat rows whose business date lies in the week of a weekly record
StatRowsOfWeek(stat_table, w) ==
    LET InWeek(b) == /\ get_cst_date(b.Timestamp) >= w.WeekStartDate
                     /\ get_cst_date(b.Timestamp) <= w.WeekEndDate
    IN  SelectSeq(stat_table, InWeek)

\* C37: when a cycle commits a weekly record of a category, the closed total
\* of the record is the sum of the closed-since-last-batch counts of the
\* category's stat rows of that week: every closure is counted once.
C37_WeeklyClosedTotalCountsEveryClosure ==
    [][\A c \in Categories :
          Len(db'[c].weekly) = Len(db[c].weekly) + 1 =>
              LET w == db'[c].weekly[Len(db'[c].weekly)]
              IN  w.TotalClosedThisWeek =
                      SumSeq(Column(StatRowsOfWeek(db'[c].stat, w),
                                    "CallsClosedSinceLastBatch"))
      ]_vars


(***************************************************************************)
(* Two month ends: batches of Saturday 2025-12-27, Wednesday 2025-12-31,   *)
(* Saturday 2026-01-03 and Saturday 2026-01-31 under the default           *)
(* configuration.  The week of 2025-12-28 .. 2026-01-03 lies in both       *)
(* months.                                                                 *)
(***************************************************************************)
MaxMonthBatches == 6

MonthTimeline ==
    { At(26, 10, 5, 0), At(26, 23, 59, 0), At(30, 23, 59, 0),
      At(33, 10, 5, 0), At(33, 23, 59, 0), At(61, 23, 59, 0) }

\* a call opened on 2025-12-01
Older(row) == [row EXCEPT !.OpenDateTime = At(0, 9, 0, 0)]

\* in the morning calls 1, 2 and 3 are open, at 23:59 only call 3 is
MonthSnapshotAt(pushed_at) ==
    IF HourOf(pushed_at) = 10
    THEN {Older(Raw(1, 1, 1)), Older(Raw(2, 2, 1)), Older(Raw(3, 3, 1))}
    ELSE {Older(Raw(3, 3, 1))}

InitMonth ==
    /\ source = <<>>
    /\ db = [c \in Categories |-> EmptyTables]
    /\ cfg = DefaultConfig
    /\ faults = 0
    /\ last = [op |-> "init", ret |-> FALSE, err |-> "none", calls |-> NoCalls]

\* the loader pushes a later batch
ArriveMonth(pushed_at) ==
    /\ Len(source) < MaxMonthBatches
    /\ \A s \in Stamps(source) : s < pushed_at
    /\ source' = Append(source, [PushedAt |-> pushed_at,
                                 BatchID |-> Len(source) + 1,
                                 rows |-> MonthSnapshotAt(pushed_at)])
    /\ last' = [op |-> "arrive", ret |-> FALSE, err |-> "none", calls |-> NoCalls]
    /\ UNCHANGED <<db, cfg, faults>>

\* one iteration of the poll loop; out is what process_batch returns
CycleMonth(out) ==
    /\ db' = out.db
    /\ last' = Record("process_batch", out)
    /\ UNCHANGED <<source, cfg, faults>>

NextMonth ==
    \/ \E pushed_at \in MonthTimeline : ArriveMonth(pushed_at)
    \/ CycleMonth(process_batch(source, db, cfg, NoFault))

SpecMonth == InitMonth /\ [][NextMonth]_vars

\* the weekly records that were summed into a monthly record
ContributorsOf(weekly_table, m) ==
    LET Earlier(w) == w.Timestamp <= m.Timestamp
    IN  SelectSeq(MonthWeeks(weekly_table, m.Timestamp), Earlier)

\* C38: every weekly record was summed into at most one monthly record, and
\* the monthly closed totals together never exceed the closed totals of the
\* weekly records.
C38_WeekCountedInOneMonth ==
    \A c \in Categories :
        /\ SumSeq(Column(db[c].monthly, "TotalClosedThisMonth")) <=
              SumSeq(Column(db[c].weekly, "TotalClosedThisWeek"))
        /\ \A i \in 1..Len(db[c].weekly) :
              Cardinality({k \in 1..Len(db[c].monthly) :
                  db[c].weekly[i] \in
                      Range(ContributorsOf(db[c].weekly, db[c].monthly[k]))}) <= 1

\* both months have a monthly record with closures, and the weekly record of
\* the week that lies in both months is committed
C38_TwoMonthsAndSharedWeek ==
    \E c \in Categories :
        /\ Len(db[c].monthly) = 2
        /\ \A k \in 1..2 : db[c].monthly[k].TotalClosedThisMonth > 0
        /\ \E i \in 1..Len(db[c].weekly) :
              /\ MonthOf(db[c].weekly[i].WeekStartDate) = 12
              /\ MonthOf(db[c].weekly[i].WeekEndDate) = 1


\* the category has a stat row of the latest batch but no batch-aggregate
\* row whose period ends at that batch
StatWithoutRollup(c) ==
    /\ source # <<>>
    /\ AlreadyProcessed(db[c].stat, LatestBatch(source).BatchID)
    /\ \A i \in 1..Len(db[c].hourly) :
          db[c].hourly[i].PeriodEnd # to_cst(LatestBatch(source).PushedAt)

\* C39: when a cycle failed after a category's stat row of the latest batch
\* was committed and before its batch-aggregate rollup ran, a later
\* successful cycle on the same batch commits that rollup.
C39_RetryCommitsDueRollups ==
    [][\A c \in Categories :
          ( /\ last.op = "process_batch" /\ last.err = "fault"
            /\ StatWithoutRollup(c)
            /\ last'.op = "process_batch" /\ last'.ret /\ last'.err = "none"
            /\ source' = source )
          => ~StatWithoutRollup(c)'
      ]_vars


(***************************************************************************)
(* app/services/tracking.py: TrackingService.query_tracking_info_batch     *)
(*                                                                         *)
(* The call is the record `last`: the submitted list, the state of every   *)
(* task of the thread pool, the future of every task, and the locals       *)
(* results and completed of the calling thread.  A task is "none" before   *)
(* it is submitted, then "queued", "running" in a worker thread and        *)
(* "done".  What a task or a lookup hands back is a record [raised,        *)
(* value]; None is the empty tuple.                                        *)
(***************************************************************************)
MaxTrackingCalls == 3
MaxWorkers == 2

ServiceCallIds == 1..MaxTrackingCalls

None == <<>>

\* the 7-digit vendor call number of a service call
VendorNumber(service_call_id) == 7000000 + service_call_id

\* the lists of (service call ID, vendor call number) with distinct IDs
ServiceCallTuples ==
    LET Lists == UNION {[1..n -> ServiceCallIds] : n \in 0..MaxTrackingCalls}
        Distinct(s) == \A i, j \in DOMAIN s : i # j => s[i] # s[j]
    IN  {[i \in DOMAIN s |-> <<s[i], VendorNumber(s[i])>>] :
            s \in {l \in Lists : Distinct(l)}}

\* what query_tracking_info can do for a vendor call number: return the
\* tracking information, return None, or raise
TrackingAnswers(vendor_call_number) ==
    { [raised |-> FALSE, value |-> <<"1Z", vendor_call_number>>],
      [raised |-> FALSE, value |-> None],
      [raised |-> TRUE, value |-> None] }

\* a query_single that lets the exception of the lookup escape
query_single_reraises(item, answer) ==
    [raised |-> answer.raised, value |-> <<item[1], answer.value>>]

\* query_single: (service_call_id, result), or (service_call_id, None) when
\* the lookup raised
query_single(item, answer) ==
    IF answer.raised
    THEN [raised |-> FALSE, value |-> <<item[1], None>>]
    ELSE [raised |-> FALSE, value |-> <<item[1], answer.value>>]

Pending == [raised |-> FALSE, value |-> None]

InitBatchQuery ==
    /\ source = <<>>
    /\ db = [c \in Categories |-> EmptyTables]
    /\ cfg = DefaultConfig
    /\ faults = 0
    /\ \E tuples \in ServiceCallTuples, workers \in 1..MaxWorkers :
          last = [ op |-> "query_tracking_info_batch", at |-> "call",
                   service_call_tuples |-> tuples,
                   max_workers |-> workers,
                   submitted |-> 0,
                   task |-> [id \in ServiceCallIds |-> "none"],
                   answer |-> [id \in ServiceCallIds |-> Pending],
                   future |-> [id \in ServiceCallIds |-> Pending],
                   results |-> <<>>,
                   collected |-> <<>>,
                   completed |-> 0 ]

\* "if not service_call_tuples: return {}"
ReturnEmpty ==
    /\ last.at = "call"
    /\ last.service_call_tuples = <<>>
    /\ last' = [last EXCEPT !.op = "return", !.at = "returned"]
    /\ UNCHANGED <<source, db, cfg, faults>>

\* executor.submit(query_single, item) for the next item of the list; after
\* the last one the calling thread waits in as_completed
Submit ==
    /\ last.at \in {"call", "submit"}
    /\ last.submitted < Len(last.service_call_tuples)
    /\ LET item == last.service_call_tuples[last.submitted + 1]
       IN  last' = [last EXCEPT
               !.op = "submit",
               !.at = IF last.submitted + 1 = Len(last.service_call_tuples)
                      THEN "collect" ELSE "submit",
               !.submitted = last.submitted + 1,
               !.task[item[1]] = "queued"]
    /\ UNCHANGED <<source, db, cfg, faults>>

\* a free worker thread of the pool takes a queued task
WorkerStart(service_call_id) ==
    /\ last.task[service_call_id] = "queued"
    /\ Cardinality({id \in ServiceCallIds : last.task[id] = "running"})
          < last.max_workers
    /\ last' = [last EXCEPT !.op = "start", !.task[service_call_id] = "running"]
    /\ UNCHANGED <<source, db, cfg, faults>>

\* the worker thread finishes query_single(item) and sets the future
WorkerFinish(item, answer) ==
    /\ last.task[item[1]] = "running"
    /\ last' = [last EXCEPT
           !.op = "finish",
           !.task[item[1]] = "done",
           !.answer[item[1]] = answer,
           !.future[item[1]] = query_single(item, answer)]
    /\ UNCHANGED <<source, db, cfg, faults>>

\* as_completed yields a finished future: future.result() and
\* results[service_call_id] = result
Collect(id) ==
    /\ last.at = "collect"
    /\ last.task[id] = "done"
    /\ id \notin Range(last.collected)
    /\ LET returned == last.future[id]
           service_call_id == returned.value[1]
           result == returned.value[2]
       IN  IF returned.raised
           THEN last' = [last EXCEPT !.op = "collect", !.at = "raised"]
           ELSE last' = [last EXCEPT
                    !.op = "collect",
                    !.completed = last.completed + 1,
                    !.collected = Append(last.collected, id),
                    !.results =
                        [k \in DOMAIN last.results \cup {service_call_id} |->
                            IF k = service_call_id THEN result
                            ELSE last.results[k]]]
    /\ UNCHANGED <<source, db, cfg, faults>>

\* every future was yielded: the pool is shut down and results is returned
Return ==
    /\ last.at = "collect"
    /\ Len(last.collected) = Len(last.service_call_tuples)
    /\ last' = [last EXCEPT !.op = "return", !.at = "returned"]
    /\ UNCHANGED <<source, db, cfg, faults>>

NextBatchQuery ==
    \/ ReturnEmpty
    \/ Submit
    \/ \E id \in ServiceCallIds : WorkerStart(id)
    \/ \E id \in ServiceCallIds :
          \E answer \in TrackingAnswers(VendorNumber(id)) :
              WorkerFinish(<<id, VendorNumber(id)>>, answer)
    \/ \E id \in ServiceCallIds : Collect(id)
    \/ Return

SpecBatchQuery == InitBatchQuery /\ [][NextBatchQuery]_vars


\* the service call IDs of the submitted list
SubmittedIds == {last.service_call_tuples[i][1] : i \in DOMAIN last.service_call_tuples}

\* C40: for every list with distinct service call IDs and every interleaving
\* of the worker threads the call does not raise, and what it returns has
\* exactly one entry per submitted service call ID: the information its
\* lookup returned, or None when the lookup returned None or raised.
C40_OneEntryPerSubmittedId ==
    /\ last.at # "raised"
    /\ last.at = "returned" =>
          /\ DOMAIN last.results = SubmittedIds
          /\ last.completed = Len(last.service_call_tuples)
          /\ \A id \in SubmittedIds :
                last.results[id] = IF last.answer[id].raised THEN None
                                   ELSE last.answer[id].value

\* three lookups were submitted, one raised and one returned information,
\* and the futures completed in another order than they were submitted
C40_FailedLookupOutOfOrder ==
    /\ last.at = "returned"
    /\ Len(last.service_call_tuples) = 3
    /\ \E id \in SubmittedIds : last.answer[id].raised
    /\ \E id \in SubmittedIds : last.results[id] # None
    /\ last.collected[1] # last.service_call_tuples[1][1]

====
